---- MODULE Spec2Model ----
(***************************************************************************)
(* The ASR evaluation platform: CreateASRJobHandler, the job service       *)
(* CreateAndRunASRJob, the evaluation engine RunASREvaluation, the metric  *)
(* functions CalculateCER / CalculateWER and the datastore tables they     *)
(* read and write.                                                         *)
(*                                                                         *)
(* Strings are sequences of one-character strings.  A float64 that the     *)
(* code obtains as float64(distance) / float64(n) is kept as the exact     *)
(* fraction [Num, Den]; two floats are equal when the fractions are.       *)
(***************************************************************************)
EXTENDS Integers, Sequences, FiniteSets, TLC

\* ------------------------------------------------------------------ bounds

\* Longest testCaseIDs list of a request.
MaxTestCases == 3
\* Longest vendorConfigIDs list of a request.
MaxVendors == 2
\* Inserts of RunASREvaluation that fail with a database error in one
\* behaviour.  A lookup fails when the row is missing, and the calls of
\* CreateAndRunASRJob on evaluation_jobs fail freely.
MaxFaults == 1
\* ------------------------------------------------------------- sql.Null*

Nil == "nil"
\* A variable of CreateAndRunASRJob that is not assigned yet.
Unassigned == "unassigned"

\* A Go error value: nil, or an error with its text.
ErrNil == [isNil |-> TRUE, text |-> <<>>]
ErrOf(text) == [isNil |-> FALSE, text |-> text]

NullStringInvalid == [Valid |-> FALSE, String |-> <<>>]
NullStringOf(s) == [Valid |-> TRUE, String |-> s]

NullFloat64Invalid == [Valid |-> FALSE, Num |-> 0, Den |-> 1]
NullFloat64Of(f) == [Valid |-> TRUE, Num |-> f.Num, Den |-> f.Den]

\* float64 values as exact fractions
Float(n, d) == [Num |-> n, Den |-> d]
FloatEq(f, g) == f.Num * g.Den = g.Num * f.Den

\* --------------------------------------------------------- metricscalculator

\* A variant of the separator test that takes no character for a space.
IsSpaceNever(c) == FALSE

IsSpace(c) == c = " "

Min2(a, b) == IF a <= b THEN a ELSE b

\* levenshtein.Options of lines 36-39 and 91-94: the cost of each edit.
DelCost == 1
\* A variant in which an insertion costs two deletions.
InsCostDouble == DelCost + DelCost
InsCost == 1
SubCost == 1

\* A variant of Matches that finds no two items equal.
MatchesNothing(sourceItem, targetItem) == FALSE

\* Matches of lines 40-42 and 95-97: the items are equal.
Matches(sourceItem, targetItem) == sourceItem = targetItem

\* One row of the edit matrix, from the row above it: row holds the entries of
\* the columns filled so far, item is the source item of the row.  (The entry
\* added is bound as the one member of a set, so that it is computed once.)
RECURSIVE MatrixRow(_, _, _, _)
MatrixRow(above, item, target, row) ==
    IF Len(row) = Len(target) + 1 THEN row
    ELSE LET j   == Len(row)
             del == above[j + 1] + DelCost
             ins == row[j] + InsCost
             sub == above[j] + (IF Matches(item, target[j]) THEN 0 ELSE SubCost)
         IN  CHOOSE filled \in {MatrixRow(above, item, target, Append(row, entry)) :
                                   entry \in {Min2(del, Min2(ins, sub))}} : TRUE

\* The last row of the edit matrix of source and target, from the row above the
\* rows of source.
RECURSIVE LastRow(_, _, _)
LastRow(source, target, above) ==
    IF Len(source) = 0 THEN above
    ELSE CHOOSE last \in {LastRow(Tail(source), target, row) :
                             row \in {MatrixRow(above, Head(source), target,
                                                <<above[1] + DelCost>>)}} : TRUE

\* levenshtein.DistanceForMatrix with InsCost = DelCost = SubCost = 1 and
\* Matches = equality of the items: the unit-cost edit distance of two
\* sequences, the last entry of the last row of the edit matrix.
Distance(source, target) ==
    LastRow(source, target, [j \in 1..(Len(target) + 1) |-> (j - 1) * InsCost])[Len(target) + 1]

\* strings.Fields: the maximal runs of non-space characters, in order.
RECURSIVE FieldsFrom(_, _, _)
FieldsFrom(s, word, acc) ==
    IF Len(s) = 0
    THEN (IF Len(word) = 0 THEN acc ELSE Append(acc, word))
    ELSE IF IsSpace(Head(s))
         THEN FieldsFrom(Tail(s), <<>>, IF Len(word) = 0 THEN acc ELSE Append(acc, word))
         ELSE FieldsFrom(Tail(s), Append(word, Head(s)), acc)

\* A variant of the tokenization that splits at every space and keeps the empty
\* tokens (strings.Split).
RECURSIVE SplitFrom(_, _, _)
SplitFrom(s, word, acc) ==
    IF Len(s) = 0 THEN Append(acc, word)
    ELSE IF IsSpace(Head(s)) THEN SplitFrom(Tail(s), <<>>, Append(acc, word))
    ELSE SplitFrom(Tail(s), Append(word, Head(s)), acc)

SplitOnSpace(s) == SplitFrom(s, <<>>, <<>>)

Fields(s) == FieldsFrom(s, <<>>, <<>>)

\* Variants of the returns: a score clamped to 1.0, and a degenerate outcome
\* returned without its error.
MetricOKClamped(f) == [value |-> IF f.Num > f.Den THEN [Num |-> 1, Den |-> 1] ELSE f, err |-> FALSE]
MetricErrDropped(f) == [value |-> f, err |-> FALSE]

\* The (value, error) pair a metric function returns.
MetricOK(f) == [value |-> f, err |-> FALSE]
MetricErr(f) == [value |-> f, err |-> TRUE]

CalculateWER(groundTruth, recognizedText) ==
    IF groundTruth = <<>> /\ recognizedText = <<>> THEN MetricOK(Float(0, 1))
    ELSE IF groundTruth = <<>> THEN MetricErr(Float(1, 1))
    ELSE LET wordsGroundTruth == Fields(groundTruth)
             wordsRecognized  == Fields(recognizedText)
             nGroundTruth     == Len(wordsGroundTruth)
         IN  IF nGroundTruth = 0
             THEN (IF Len(wordsRecognized) = 0 THEN MetricOK(Float(0, 1))
                   ELSE MetricErr(Float(1, 1)))
             ELSE MetricOK(Float(Distance(wordsGroundTruth, wordsRecognized), nGroundTruth))

\* A variant of the conversion that takes each byte for a character.
BytesAsRunes(s) == s

\* A Go string is its UTF-8 bytes: an ASCII character is one byte, written as the
\* character; U+00E9 is the two bytes 0xC3 0xA9.
\* []rune(s), lines 79-80: the code points of the bytes, U+FFFD for a byte that
\* starts no valid encoding.
RECURSIVE Runes(_)
Runes(s) ==
    IF Len(s) = 0 THEN <<>>
    ELSE IF Head(s) = "0xC3" /\ Len(s) >= 2 /\ s[2] = "0xA9"
         THEN <<"U+00E9">> \o Runes(Tail(Tail(s)))
    ELSE IF Head(s) \in {"0xC3", "0xA9"} THEN <<"U+FFFD">> \o Runes(Tail(s))
    ELSE <<Head(s)>> \o Runes(Tail(s))

CalculateCER(groundTruth, recognizedText) ==
    IF groundTruth = <<>> /\ recognizedText = <<>> THEN MetricOK(Float(0, 1))
    ELSE IF groundTruth = <<>> THEN MetricErr(Float(1, 1))
    ELSE LET runesGroundTruth == Runes(groundTruth)
             runesRecognized  == Runes(recognizedText)
             nGroundTruth     == Len(runesGroundTruth)
         IN  IF nGroundTruth = 0
             THEN (IF Len(runesRecognized) = 0 THEN MetricOK(Float(0, 1))
                   ELSE MetricErr(Float(1, 1)))
             ELSE MetricOK(Float(Distance(runesGroundTruth, runesRecognized), nGroundTruth))

\* ------------------------------------------------------------ vendoradapters

\* MockASRAdapter.Recognize's fixed sentence ("Mock recognition for ...: Hello
\* world, ..."), abbreviated to two words.
MockText == <<"a", " ", "b">>
\* The text of an error returned by an adapter, abbreviated.
ErrText == <<"e">>

RecognizeOK(text) == [recognizedText |-> text, rawResponse |-> "payload", err |-> ErrNil]
RecognizeErr(raw) == [recognizedText |-> <<>>, rawResponse |-> raw, err |-> ErrOf(ErrText)]

\* The words "Recognition Error: e", spoken.
SpokenError ==
    <<"R", "e", "c", "o", "g", "n", "i", "t", "i", "o", "n", " ",
      "E", "r", "r", "o", "r", ":", " ", "e">>

\* What a vendor service hears in the audio of a test case, and returns as the
\* text of its response: the words "a a" in the audio of test case 1, the words
\* "Recognition Error: e" in that of test case 4, silence in the others.
Transcript(testCase) ==
    IF testCase.ID = 1 THEN <<"a", " ", "a">>
    ELSE IF testCase.ID = 4 THEN SpokenError
    ELSE <<>>

RealAdapterNames ==
    {"GoogleCloudASR", "MicrosoftASR", "DeepgramASR", "TencentASR", "VolcengineASR", "AlibabaASR"}

\* The adapter that the case of a name constructs.
AdapterOfCase(name) ==
    CASE name = "GoogleCloudASR" -> "GoogleASRAdapter"
      [] name = "MicrosoftASR"   -> "MicrosoftASRAdapter"
      [] name = "DeepgramASR"    -> "DeepgramASRAdapter"
      [] name = "TencentASR"     -> "TencentASRAdapter"
      [] name = "VolcengineASR"  -> "VolcengineASRAdapter"
      [] name = "AlibabaASR"     -> "AlibabaASRAdapter"

\* A *VendorConfig that is nil.
NilVendorConfig == [ID |-> 0, Name |-> ""]

\* A variant without the fallback: a name that no case matches is an error (the
\* return that line 85 keeps as a comment).
GetASRAdapterOrError(vendorConfig, objectStoreClient) ==
    IF vendorConfig = NilVendorConfig THEN [adapter |-> Nil, err |-> TRUE]
    ELSE IF vendorConfig.Name \in {"MockASR", "MockASR-Error"}
         THEN [adapter |-> "MockASRAdapter", err |-> FALSE]
    ELSE IF vendorConfig.Name \in RealAdapterNames /\ objectStoreClient
         THEN [adapter |-> AdapterOfCase(vendorConfig.Name), err |-> FALSE]
    ELSE [adapter |-> Nil, err |-> TRUE]

\* GetASRAdapter: the adapter selected for a vendor configuration, or an error.
\* objectStoreClient is globalObjectStoreClient /= nil.
GetASRAdapter(vendorConfig, objectStoreClient) ==
    IF vendorConfig = NilVendorConfig THEN [adapter |-> Nil, err |-> TRUE]
    ELSE IF vendorConfig.Name = "MockASR" THEN [adapter |-> "MockASRAdapter", err |-> FALSE]
    ELSE IF vendorConfig.Name = "MockASR-Error" THEN [adapter |-> "MockASRAdapter", err |-> FALSE]
    ELSE IF vendorConfig.Name \in RealAdapterNames
         THEN (IF ~objectStoreClient THEN [adapter |-> Nil, err |-> TRUE]
               ELSE [adapter |-> AdapterOfCase(vendorConfig.Name), err |-> FALSE])
    ELSE [adapter |-> "MockASRAdapter", err |-> FALSE]

\* adapter.Recognize: the (recognizedText, rawResponse, err) triples the call can
\* return.  The mock answers by the vendor's name; a vendor service answers with
\* its transcript of the audio, or the call fails.
Recognize(adapter, testCase, vendorConfig) ==
    IF adapter = "MockASRAdapter"
    THEN (IF vendorConfig.Name = "MockASR-Error" THEN {RecognizeErr("payload")}
          ELSE {RecognizeOK(MockText)})
    ELSE {RecognizeErr(""), RecognizeOK(Transcript(testCase))}

\* ----------------------------------------------------------------- datastore

JobStatusPending   == "PENDING"
JobStatusRunning   == "RUNNING"
JobStatusCompleted == "COMPLETED"
JobStatusFailed    == "FAILED"

\* The ids a request can name; the tables hold a row for some of them.
TestCaseIDSpace == 1..6
VendorConfigIDSpace == 1..4

\* The rows of asr_test_cases when the requests arrive, by id: two test cases with
\* a ground truth (ids 1 and 3), one whose ground_truth_text is NULL, one whose
\* ground truth is the empty string, one whose ground truth is a single space.
\* Id 2 has no row.
InitialTestCases ==
    [id \in {1, 3, 4, 5, 6} |->
        CASE id = 1 -> [ID |-> 1, GroundTruthText |-> NullStringOf(<<"a", " ", "a">>)]
          [] id = 3 -> [ID |-> 3, GroundTruthText |-> NullStringOf(<<"a", " ", "b">>)]
          [] id = 4 -> [ID |-> 4, GroundTruthText |-> NullStringInvalid]
          [] id = 5 -> [ID |-> 5, GroundTruthText |-> NullStringOf(<<>>)]
          [] OTHER  -> [ID |-> 6, GroundTruthText |-> NullStringOf(<<" ">>)]]

\* The rows of vendor_configs when the requests arrive, by id.  Id 3 has no row.
InitialVendorConfigs ==
    [id \in {1, 2, 4} |->
        CASE id = 1 -> [ID |-> 1, Name |-> "MockASR"]
          [] id = 2 -> [ID |-> 2, Name |-> "MockASR-Error"]
          [] OTHER  -> [ID |-> 4, Name |-> "VolcengineASR"]]

\* The zero values of the structs, for a variable not assigned yet.
NilTestCase == [ID |-> 0, GroundTruthText |-> NullStringInvalid]
NilJob == [ID |-> 0, Status |-> "", StartedAt |-> FALSE, CompletedAt |-> FALSE]
NoResponse == [code |-> 0, job |-> NilJob]

VARIABLES
    DB,                       \* datastore.DB /= nil
    globalObjectStoreClient,  \* vendoradapters.globalObjectStoreClient /= nil
    asr_test_cases,           \* table: id -> row, for the ids that have one
    vendor_configs,           \* table: id -> row, for the ids that have one
    vendor_configs_id_seq,    \* the serial of vendor_configs.id: the last id given
    adminOps,                 \* the vendor configuration requests served so far
    evaluation_jobs,          \* table: the rows in id order (id = position)
    asr_evaluation_results,   \* table: the rows in insertion (id) order
    faults,                   \* RunASREvaluation's inserts that failed so far
    pc,                       \* per request: the statement it is at
    testCaseIDs,              \* per request: req.TestCaseIDs
    vendorConfigIDs,          \* per request: req.VendorConfigIDs
    job,                      \* CreateAndRunASRJob: the local job object
    evalErr,                  \* CreateAndRunASRJob: what RunASREvaluation returned
    tcIdx,                    \* RunASREvaluation: position in testCaseIDs
    vIdx,                     \* RunASREvaluation: position in vendorConfigIDs
    testCase,                 \* RunASREvaluation: the fetched test case
    vendorConfig,             \* RunASREvaluation: the fetched vendor config
    adapter,                  \* RunASREvaluation: the selected adapter
    result,                   \* RunASREvaluation: the result built for the pair
    response,                 \* CreateASRJobHandler: the HTTP answer
    calls,                    \* per request: the collaborator calls made, in order
    groundTruth,              \* CalculateCER / CalculateWER: the first argument
    recognizedText,           \* CalculateCER / CalculateWER: the second argument
    cerOut,                   \* what CalculateCER returned: <<>> before it returns
    cerSwapped,               \* the same, for the call with the arguments swapped
    werOut,                   \* what CalculateWER returned: <<>> before it returns
    globalMinioClient,        \* objectstore.globalMinioClient /= nil
    objectStoreUp,            \* the MinIO server answers the calls made to it
    bucket,                   \* the names of the objects in the bucket
    audio_file_path,          \* column of asr_test_cases: id -> object name
    upload                    \* per CreateASRTestCaseHandler request: where it is

objectVars == <<globalMinioClient, objectStoreUp, bucket, audio_file_path, upload>>
storeVars ==
    <<DB, globalObjectStoreClient, asr_test_cases, vendor_configs, vendor_configs_id_seq,
      adminOps, objectVars>>
reqVars   == <<testCaseIDs, vendorConfigIDs>>
loopVars  == <<tcIdx, vIdx, testCase, vendorConfig, adapter, result>>
metricVars == <<groundTruth, recognizedText, cerOut, cerSwapped, werOut>>
vars == <<DB, globalObjectStoreClient, asr_test_cases, vendor_configs, vendor_configs_id_seq,
          adminOps, evaluation_jobs,
          asr_evaluation_results, faults, pc, testCaseIDs, vendorConfigIDs, job, evalErr,
          tcIdx, vIdx, testCase, vendorConfig, adapter, result, response, calls,
          groundTruth, recognizedText, cerOut, cerSwapped, werOut,
          globalMinioClient, objectStoreUp, bucket, audio_file_path, upload>>

\* -------------------------------------------------------------- store calls

\* The outcomes of one insert of RunASREvaluation: TRUE when the database
\* executes the statement, FALSE when DB.QueryRow returns an error.
StoreOutcomes == IF faults < MaxFaults THEN {TRUE, FALSE} ELSE {TRUE}

\* The outcomes of one store call of CreateAndRunASRJob on evaluation_jobs.
JobStoreOutcomes == {TRUE, FALSE}

CountFault(ok) == faults' = faults + (IF ok THEN 0 ELSE 1)

Call(op, i, k, ok) == [op |-> op, tc |-> i, v |-> k, ok |-> ok]
Record(p, call) == calls' = [calls EXCEPT ![p] = Append(@, call)]

\* CreateEvaluationJob: the table after the INSERT (id from the serial column).
InsertJob(jobs, status, tcs, vs) ==
    Append(jobs, [id |-> Len(jobs) + 1, status |-> status,
                  test_case_ids |-> tcs, vendor_config_ids |-> vs,
                  started_at |-> FALSE, completed_at |-> FALSE])

\* A variant of the UPDATE without its WHERE clause: every job gets the status.
UpdateEveryJobStatus(jobs, id, status) ==
    [n \in 1..Len(jobs) |-> [jobs[n] EXCEPT !.status = status]]

\* UpdateEvaluationJobStatus: UPDATE evaluation_jobs SET status = $1 WHERE id = $3.
UpdateEvaluationJobStatus(jobs, id, status) ==
    [jobs EXCEPT ![id].status = status]

\* A variant of the UPDATE that never writes completed_at.
UpdateStartedAtOnly(jobs, id, startValid, endValid) ==
    [jobs EXCEPT ![id].started_at = IF startValid THEN TRUE ELSE @]

\* UpdateEvaluationJobTimestamps: sets the timestamps whose argument is Valid.
UpdateEvaluationJobTimestamps(jobs, id, startValid, endValid) ==
    [jobs EXCEPT ![id].started_at = IF startValid THEN TRUE ELSE @,
                 ![id].completed_at = IF endValid THEN TRUE ELSE @]

\* GetEvaluationJob: the row as an EvaluationJob object.
GetEvaluationJob(jobs, id) ==
    [ID |-> id, Status |-> jobs[id].status,
     StartedAt |-> jobs[id].started_at, CompletedAt |-> jobs[id].completed_at]

\* Variants of the INSERT: one that stores the row twice, one that stores it
\* ahead of the rows already there.
InsertResultTwice(results, r) == Append(Append(results, r), r)
InsertResultFirst(results, r) == <<r>> \o results

\* A variant of the INSERT that stores every row under the id of the first job.
InsertResultOfFirstJob(results, r) == Append(results, [r EXCEPT !.job_id = 1])

\* CreateASREvaluationResult: the table after the INSERT.
InsertResult(results, r) == Append(results, r)

\* The foreign keys of asr_evaluation_results: the referenced rows exist.
ForeignKeysHold(r) ==
    /\ r.job_id \in 1..Len(evaluation_jobs)
    /\ r.asr_test_case_id \in DOMAIN asr_test_cases
    /\ r.vendor_config_id \in DOMAIN vendor_configs

\* vendor_config_id of a result row whose vendor configuration was deleted: NULL.
NullID == 0

\* CreateVendorConfig: the table after the INSERT of a row under the id given by
\* the serial.
InsertVendorConfig(configs, id, name) ==
    [i \in DOMAIN configs \cup {id} |->
        IF i = id THEN [ID |-> id, Name |-> name] ELSE configs[i]]

\* UpdateVendorConfig: UPDATE vendor_configs SET name = $1, ... WHERE id = $9.
UpdateVendorConfig(configs, id, name) == [configs EXCEPT ![id].Name = name]

\* DeleteVendorConfig: DELETE FROM vendor_configs WHERE id = $1.
DeleteVendorConfig(configs, id) == [i \in DOMAIN configs \ {id} |-> configs[i]]

\* A variant of the foreign key that deletes the rows of a deleted vendor
\* configuration (ON DELETE CASCADE).
OnDeleteCascade(results, id) == SelectSeq(results, LAMBDA r : r.vendor_config_id /= id)

\* vendor_config_id ... REFERENCES vendor_configs(id) ON DELETE SET NULL: what the
\* delete of the vendor configuration id does to the result rows.
OnDeleteSetNull(results, id) ==
    [n \in 1..Len(results) |->
        IF results[n].vendor_config_id = id
        THEN [results[n] EXCEPT !.vendor_config_id = NullID]
        ELSE results[n]]

\* ---------------------------------------------------------- evaluationengine

ErrorPrefix ==
    <<"R", "e", "c", "o", "g", "n", "i", "t", "i", "o", "n", " ",
      "E", "r", "r", "o", "r", ":", " ">>

\* A variant of the ground-truth test that accepts the empty string.
GroundTruthNotNull(tc) == tc.GroundTruthText.Valid

\* Line 84: the test case has a ground truth to score against.
HasGroundTruth(tc) == tc.GroundTruthText.Valid /\ tc.GroundTruthText.String /= <<>>

\* A variant that scores the recognized text of a failed Recognizer call too.
MetricsComputedDespiteError(tc, out) == HasGroundTruth(tc)

\* Lines 84 and 87: metrics are computed when there is a ground truth and the
\* Recognizer call succeeded.
MetricsComputed(tc, out) == HasGroundTruth(tc) /\ out.err.isNil

\* A variant that stores the value of a metric whatever its error.
MetricFieldIgnoringError(m) == NullFloat64Of(m.value)

\* Lines 88-104: a metric whose computation reports an error is stored unset.
MetricField(m) == IF m.err THEN NullFloat64Invalid ELSE NullFloat64Of(m.value)

\* A variant that scores the sentence: 0.0 when the recognized text is the
\* ground truth, 1.0 otherwise.
SentenceErrorComputed(tc, out) ==
    IF MetricsComputed(tc, out)
    THEN NullFloat64Of(Float(IF out.recognizedText = tc.GroundTruthText.String THEN 0 ELSE 1, 1))
    ELSE NullFloat64Invalid

\* Lines 105-106 and 112: SER is not calculated, on either branch.
SentenceErrorField(tc, out) == NullFloat64Invalid

\* The ASREvaluationResult that RunASREvaluation builds for one pair from what
\* adapter.Recognize returned (lines 59-113).  A field the code never assigns
\* keeps the zero value of its type, which for sql.NullFloat64 is Valid = false.
BuildResult(jobID, tc, vc, out) ==
    LET computed == MetricsComputed(tc, out)
        gt  == tc.GroundTruthText.String
        rec == out.recognizedText
    IN  [job_id           |-> jobID,
         asr_test_case_id |-> tc.ID,
         vendor_config_id |-> vc.ID,
         latency_ms       |-> [Valid |-> TRUE],
         raw_vendor_response |-> IF out.rawResponse /= "" THEN out.rawResponse ELSE "null",
         recognized_text  |-> IF ~out.err.isNil
                              THEN NullStringOf(ErrorPrefix \o out.err.text)
                              ELSE NullStringOf(out.recognizedText),
         cer |-> IF computed THEN MetricField(CalculateCER(gt, rec)) ELSE NullFloat64Invalid,
         wer |-> IF computed THEN MetricField(CalculateWER(gt, rec)) ELSE NullFloat64Invalid,
         ser |-> SentenceErrorField(tc, out)]

\* Where the loops go after the pair at (tcIdx, vIdx) of request p is over.
AfterTestCase(p) ==
    IF tcIdx[p] < Len(testCaseIDs[p])
    THEN /\ tcIdx' = [tcIdx EXCEPT ![p] = @ + 1]
         /\ pc' = [pc EXCEPT ![p] = "GetASRTestCase"]
         /\ UNCHANGED evalErr
    ELSE /\ pc' = [pc EXCEPT ![p] = "UpdateFinalStatus"]
         /\ evalErr' = [evalErr EXCEPT ![p] = Nil]
         /\ UNCHANGED tcIdx

AfterPair(p) ==
    IF vIdx[p] < Len(vendorConfigIDs[p])
    THEN /\ vIdx' = [vIdx EXCEPT ![p] = @ + 1]
         /\ pc' = [pc EXCEPT ![p] = "GetVendorConfig"]
         /\ UNCHANGED <<tcIdx, evalErr>>
    ELSE /\ AfterTestCase(p)
         /\ UNCHANGED vIdx

\* Variants of the error paths: the run returns (with the error, or with nil),
\* or the inner loop is left.
ReturnError(p) ==
    /\ pc' = [pc EXCEPT ![p] = "UpdateFinalStatus"]
    /\ evalErr' = [evalErr EXCEPT ![p] = "error"]
    /\ UNCHANGED <<tcIdx, vIdx>>

ReturnNil(p) ==
    /\ pc' = [pc EXCEPT ![p] = "UpdateFinalStatus"]
    /\ evalErr' = [evalErr EXCEPT ![p] = Nil]
    /\ UNCHANGED <<tcIdx, vIdx>>

BreakVendorLoop(p) == AfterTestCase(p) /\ UNCHANGED vIdx

\* Lines 28-32: GetASRTestCase failed; log and continue with the next test case.
SkipTestCase(p) == AfterTestCase(p) /\ UNCHANGED vIdx

\* Lines 37-40 and 44-47: GetVendorConfig or GetASRAdapter failed; log and
\* continue with the next vendor.
SkipPair(p) == AfterPair(p)

\* Lines 116-121: CreateASREvaluationResult failed; log and go on.
PersistFailed(p) == AfterPair(p)

\* Lines 122-125: the result is saved; the inner loop goes on.
PairDone(p) == AfterPair(p)

\* A variant of the final status that is FAILED whatever the run returned.
FinalStatusFailed(err) == JobStatusFailed

\* Lines 91-108: the final status, from what RunASREvaluation returned.
FinalStatus(err) == IF err /= Nil THEN JobStatusFailed ELSE JobStatusCompleted

\* ------------------------------------------------------------------- inputs

RECURSIVE SeqsOfLen(_, _)
SeqsOfLen(S, n) ==
    IF n = 0 THEN {<<>>}
    ELSE {Append(q, x) : q \in SeqsOfLen(S, n - 1), x \in S}

Increasing(q) == \A a, b \in 1..Len(q) : a < b => q[a] < q[b]

\* The id lists of a request: binding:"required,min=1" rejects an empty list
\* before CreateAndRunASRJob is called.  The lists are taken in increasing order
\* of the ids and name no id twice, so that a row is the row of one pair.
IDLists(ids, maxLen) ==
    UNION {{q \in SeqsOfLen(ids, n) : Increasing(q)} : n \in 1..maxLen}

TypeOK ==
    /\ DB \in BOOLEAN
    /\ globalObjectStoreClient \in BOOLEAN
    /\ faults \in 0..MaxFaults
    /\ \A p \in DOMAIN pc :
          /\ tcIdx[p] \in 1..Len(testCaseIDs[p])
          /\ vIdx[p] \in 1..Len(vendorConfigIDs[p])

InitRequests(R) ==
    /\ DB = TRUE
    /\ globalObjectStoreClient \in BOOLEAN
    /\ asr_test_cases = InitialTestCases
    /\ vendor_configs = InitialVendorConfigs
    /\ vendor_configs_id_seq = Cardinality(VendorConfigIDSpace)
    /\ adminOps = 0
    /\ evaluation_jobs = <<>>
    /\ asr_evaluation_results = <<>>
    /\ faults = 0
    /\ pc = [p \in R |-> "CreateEvaluationJob"]
    /\ testCaseIDs \in [R -> IDLists(TestCaseIDSpace, MaxTestCases)]
    /\ vendorConfigIDs \in [R -> IDLists(VendorConfigIDSpace, MaxVendors)]
    /\ job = [p \in R |-> NilJob]
    /\ evalErr = [p \in R |-> Unassigned]
    /\ tcIdx = [p \in R |-> 1]
    /\ vIdx = [p \in R |-> 1]
    /\ testCase = [p \in R |-> NilTestCase]
    /\ vendorConfig = [p \in R |-> NilVendorConfig]
    /\ adapter = [p \in R |-> Nil]
    /\ result = [p \in R |-> BuildResult(0, NilTestCase, NilVendorConfig, RecognizeOK(<<>>))]
    /\ response = [p \in R |-> NoResponse]
    /\ calls = [p \in R |-> <<>>]

\* One CreateASRJobHandler request.
Requests == {1}

\* No call of a metric function is being followed on its own.
NoMetricCall ==
    /\ groundTruth = <<>>
    /\ recognizedText = <<>>
    /\ cerOut = <<>>
    /\ cerSwapped = <<>>
    /\ werOut = <<>>

\* No CreateASRTestCaseHandler request is being served: every test case has its
\* audio object, uploaded when the test case was created.
NoUpload ==
    /\ globalMinioClient = TRUE
    /\ objectStoreUp = TRUE
    /\ audio_file_path = [id \in DOMAIN asr_test_cases |-> id]
    /\ bucket = DOMAIN asr_test_cases
    /\ upload = <<>>

Init == InitRequests(Requests) /\ NoMetricCall /\ NoUpload

\* ------------------------------------------------------- CreateAndRunASRJob

\* A variant of the handler that answers 201 Created whatever was returned.
RespondCreated(returnedJob, err) == [code |-> 201, job |-> returnedJob]

\* CreateASRJobHandler's answer to what CreateAndRunASRJob returned (lines 44-63).
Respond(returnedJob, err) ==
    IF err
    THEN (IF returnedJob /= NilJob /\ returnedJob.Status = JobStatusFailed
          THEN [code |-> 202, job |-> returnedJob]
          ELSE [code |-> 500, job |-> NilJob])
    ELSE [code |-> 201, job |-> returnedJob]

\* Step 1 (lines 46-60): store the job with status PENDING.
CreateEvaluationJob(p) ==
    /\ pc[p] = "CreateEvaluationJob"
    /\ \E ok \in JobStoreOutcomes :
          /\ IF DB /\ ok
             THEN /\ evaluation_jobs' = InsertJob(evaluation_jobs, JobStatusPending,
                                                  testCaseIDs[p], vendorConfigIDs[p])
                  /\ job' = [job EXCEPT ![p] =
                                [ID |-> Len(evaluation_jobs) + 1, Status |-> JobStatusPending,
                                 StartedAt |-> FALSE, CompletedAt |-> FALSE]]
                  /\ pc' = [pc EXCEPT ![p] = "UpdateRunning"]
                  /\ UNCHANGED response
             ELSE /\ response' = [response EXCEPT ![p] = Respond(NilJob, TRUE)]
                  /\ pc' = [pc EXCEPT ![p] = "done"]
                  /\ UNCHANGED <<evaluation_jobs, job>>
    /\ UNCHANGED metricVars
    /\ UNCHANGED <<faults, storeVars, reqVars, loopVars, asr_evaluation_results, evalErr, calls>>

\* Step 2 (lines 63-72): status RUNNING.
UpdateRunning(p) ==
    /\ pc[p] = "UpdateRunning"
    /\ \E ok \in JobStoreOutcomes :
          /\ IF DB /\ ok
             THEN /\ evaluation_jobs' =
                        UpdateEvaluationJobStatus(evaluation_jobs, job[p].ID, JobStatusRunning)
                  /\ job' = [job EXCEPT ![p].Status = JobStatusRunning]
                  /\ pc' = [pc EXCEPT ![p] = "UpdateStartedAt"]
             ELSE /\ pc' = [pc EXCEPT ![p] = "MarkFailed"]
                  /\ UNCHANGED <<evaluation_jobs, job>>
    /\ UNCHANGED metricVars
    /\ UNCHANGED <<faults, storeVars, reqVars, loopVars, asr_evaluation_results, evalErr,
                   response, calls>>

\* Lines 74-84: started_at.
UpdateStartedAt(p) ==
    /\ pc[p] = "UpdateStartedAt"
    /\ \E ok \in JobStoreOutcomes :
          /\ IF DB /\ ok
             THEN /\ evaluation_jobs' =
                        UpdateEvaluationJobTimestamps(evaluation_jobs, job[p].ID, TRUE, FALSE)
                  /\ job' = [job EXCEPT ![p].StartedAt = TRUE]
                  /\ pc' = [pc EXCEPT ![p] = "RunASREvaluation"]
             ELSE /\ pc' = [pc EXCEPT ![p] = "MarkFailed"]
                  /\ UNCHANGED <<evaluation_jobs, job>>
    /\ UNCHANGED metricVars
    /\ UNCHANGED <<faults, storeVars, reqVars, loopVars, asr_evaluation_results, evalErr,
                   response, calls>>

\* Lines 67 and 78: the attempt to mark the job FAILED, its error ignored.
MarkFailed(p) ==
    /\ pc[p] = "MarkFailed"
    /\ \E ok \in JobStoreOutcomes :
          /\ Record(p, Call("UpdateEvaluationJobStatus", 0, 0, DB /\ ok))
          /\ evaluation_jobs' =
                IF DB /\ ok
                THEN UpdateEvaluationJobStatus(evaluation_jobs, job[p].ID, JobStatusFailed)
                ELSE evaluation_jobs
    /\ pc' = [pc EXCEPT ![p] = "MarkFailedAt"]
    /\ UNCHANGED metricVars
    /\ UNCHANGED <<faults, storeVars, reqVars, loopVars, asr_evaluation_results, job, evalErr,
                   response>>

\* Lines 68-70 and 79-81: the attempt to set completed_at, its error ignored; the
\* local job becomes FAILED and is returned with the error.
MarkFailedAt(p) ==
    /\ pc[p] = "MarkFailedAt"
    /\ \E ok \in JobStoreOutcomes :
          /\ Record(p, Call("UpdateEvaluationJobTimestamps", 0, 0, DB /\ ok))
          /\ evaluation_jobs' =
                IF DB /\ ok
                THEN UpdateEvaluationJobTimestamps(evaluation_jobs, job[p].ID, FALSE, TRUE)
                ELSE evaluation_jobs
    /\ job' = [job EXCEPT ![p].Status = JobStatusFailed]
    /\ response' = [response EXCEPT ![p] = Respond(job'[p], TRUE)]
    /\ pc' = [pc EXCEPT ![p] = "done"]
    /\ UNCHANGED metricVars
    /\ UNCHANGED <<faults, storeVars, reqVars, loopVars, asr_evaluation_results, evalErr>>

\* --------------------------------------------------------- RunASREvaluation

\* Lines 16-26: the entry of RunASREvaluation, called at line 88.
RunASREvaluation(p) ==
    /\ pc[p] = "RunASREvaluation"
    /\ IF ~DB
       THEN /\ evalErr' = [evalErr EXCEPT ![p] = "database connection is not initialized"]
            /\ pc' = [pc EXCEPT ![p] = "UpdateFinalStatus"]
       ELSE IF Len(testCaseIDs[p]) = 0
            THEN /\ evalErr' = [evalErr EXCEPT ![p] = Nil]
                 /\ pc' = [pc EXCEPT ![p] = "UpdateFinalStatus"]
            ELSE /\ evalErr' = evalErr
                 /\ pc' = [pc EXCEPT ![p] = "GetASRTestCase"]
    /\ UNCHANGED metricVars
    /\ UNCHANGED <<storeVars, reqVars, loopVars, evaluation_jobs, asr_evaluation_results,
                   faults, job, response, calls>>

\* Lines 26-33: the outer loop fetches the next test case, or skips it.
\* GetASRTestCase returns an error when the id has no row (sql.ErrNoRows) or the
\* query fails; line 28 does not tell them apart, and this is the first.
GetASRTestCase(p) ==
    /\ pc[p] = "GetASRTestCase"
    /\ LET id    == testCaseIDs[p][tcIdx[p]]
           found == DB /\ id \in DOMAIN asr_test_cases
       IN     /\ Record(p, Call("GetASRTestCase", tcIdx[p], 0, found))
              /\ IF found
                 THEN /\ testCase' = [testCase EXCEPT ![p] = asr_test_cases[id]]
                      /\ IF Len(vendorConfigIDs[p]) = 0
                         THEN AfterTestCase(p) /\ UNCHANGED vIdx
                         ELSE /\ vIdx' = [vIdx EXCEPT ![p] = 1]
                              /\ pc' = [pc EXCEPT ![p] = "GetVendorConfig"]
                              /\ UNCHANGED <<tcIdx, evalErr>>
                 ELSE /\ SkipTestCase(p)
                      /\ UNCHANGED testCase
    /\ UNCHANGED metricVars
    /\ UNCHANGED <<storeVars, reqVars, vendorConfig, adapter, result, evaluation_jobs,
                   asr_evaluation_results, faults, job, response>>

\* Lines 35-47: the inner loop fetches the next vendor and its adapter, or skips the pair.
\* GetVendorConfig returns an error when the id has no row, as above.
GetVendorConfig(p) ==
    /\ pc[p] = "GetVendorConfig"
    /\ LET id    == vendorConfigIDs[p][vIdx[p]]
           found == DB /\ id \in DOMAIN vendor_configs
           got   == GetASRAdapter(vendor_configs[id], globalObjectStoreClient)
       IN     /\ IF found
                 THEN /\ vendorConfig' = [vendorConfig EXCEPT ![p] = vendor_configs[id]]
                      /\ Record(p, Call("GetVendorConfig", tcIdx[p], vIdx[p], ~got.err))
                      /\ IF got.err
                         THEN SkipPair(p) /\ UNCHANGED adapter
                         ELSE /\ adapter' = [adapter EXCEPT ![p] = got.adapter]
                              /\ pc' = [pc EXCEPT ![p] = "Recognize"]
                              /\ UNCHANGED <<tcIdx, vIdx, evalErr>>
                 ELSE /\ Record(p, Call("GetVendorConfig", tcIdx[p], vIdx[p], FALSE))
                      /\ SkipPair(p)
                      /\ UNCHANGED <<vendorConfig, adapter>>
    /\ UNCHANGED metricVars
    /\ UNCHANGED <<storeVars, reqVars, testCase, result, evaluation_jobs,
                   asr_evaluation_results, faults, job, response>>

\* Lines 55-113: the Recognizer call, and the result built from what it returned.
RecognizePair(p) ==
    /\ pc[p] = "Recognize"
    /\ \E out \in Recognize(adapter[p], testCase[p], vendorConfig[p]) :
          /\ result' = [result EXCEPT ![p] =
                           BuildResult(job[p].ID, testCase[p], vendorConfig[p], out)]
          /\ Record(p, Call("Recognize", tcIdx[p], vIdx[p], out.err.isNil))
    /\ pc' = [pc EXCEPT ![p] = "CreateASREvaluationResult"]
    /\ UNCHANGED metricVars
    /\ UNCHANGED <<storeVars, reqVars, tcIdx, vIdx, testCase, vendorConfig, adapter,
                   evaluation_jobs, asr_evaluation_results, faults, job, evalErr, response>>

\* Lines 115-124: the result is inserted, or lost; either way the loop goes on.
CreateASREvaluationResult(p) ==
    /\ pc[p] = "CreateASREvaluationResult"
    /\ \E ok \in StoreOutcomes :
          LET saved == DB /\ ok /\ ForeignKeysHold(result[p])
          IN  /\ CountFault(ok)
              /\ Record(p, Call("CreateASREvaluationResult", tcIdx[p], vIdx[p], saved))
              /\ asr_evaluation_results' =
                    IF saved THEN InsertResult(asr_evaluation_results, result[p])
                    ELSE asr_evaluation_results
              /\ IF saved THEN PairDone(p) ELSE PersistFailed(p)
    /\ UNCHANGED metricVars
    /\ UNCHANGED <<storeVars, reqVars, testCase, vendorConfig, adapter, result,
                   evaluation_jobs, job, response>>

\* ------------------------------------------- CreateAndRunASRJob, after the run

\* Lines 91-109: the final status, from what RunASREvaluation returned.
UpdateFinalStatus(p) ==
    /\ pc[p] = "UpdateFinalStatus"
    /\ LET status == FinalStatus(evalErr[p])
       IN  /\ \E ok \in JobStoreOutcomes :
                 /\ Record(p, Call("UpdateEvaluationJobStatus", 0, 0, DB /\ ok))
                 /\ evaluation_jobs' =
                       IF DB /\ ok
                       THEN UpdateEvaluationJobStatus(evaluation_jobs, job[p].ID, status)
                       ELSE evaluation_jobs
           /\ job' = [job EXCEPT ![p].Status = status, ![p].CompletedAt = TRUE]
    /\ pc' = [pc EXCEPT ![p] = "UpdateCompletedAt"]
    /\ UNCHANGED metricVars
    /\ UNCHANGED <<faults, storeVars, reqVars, loopVars, asr_evaluation_results, evalErr,
                   response>>

\* Lines 111-115: completed_at, whatever the outcome.
UpdateCompletedAt(p) ==
    /\ pc[p] = "UpdateCompletedAt"
    /\ \E ok \in JobStoreOutcomes :
          /\ Record(p, Call("UpdateEvaluationJobTimestamps", 0, 0, DB /\ ok))
          /\ evaluation_jobs' =
                IF DB /\ ok
                THEN UpdateEvaluationJobTimestamps(evaluation_jobs, job[p].ID, FALSE, TRUE)
                ELSE evaluation_jobs
    /\ pc' = [pc EXCEPT ![p] = "GetFinalJob"]
    /\ UNCHANGED metricVars
    /\ UNCHANGED <<faults, storeVars, reqVars, loopVars, asr_evaluation_results, job, evalErr,
                   response>>

\* Lines 117-126: the job is read back and returned; the handler answers.
GetFinalJob(p) ==
    /\ pc[p] = "GetFinalJob"
    /\ \E ok \in JobStoreOutcomes :
          /\ response' = [response EXCEPT ![p] =
                Respond(IF DB /\ ok THEN GetEvaluationJob(evaluation_jobs, job[p].ID)
                        ELSE job[p],
                        evalErr[p] /= Nil)]
    /\ pc' = [pc EXCEPT ![p] = "done"]
    /\ UNCHANGED metricVars
    /\ UNCHANGED <<faults, storeVars, reqVars, loopVars, evaluation_jobs, asr_evaluation_results,
                   job, evalErr, calls>>

Next ==
    \/ \E p \in DOMAIN pc : CreateEvaluationJob(p)
    \/ \E p \in DOMAIN pc : UpdateRunning(p)
    \/ \E p \in DOMAIN pc : UpdateStartedAt(p)
    \/ \E p \in DOMAIN pc : MarkFailed(p)
    \/ \E p \in DOMAIN pc : MarkFailedAt(p)
    \/ \E p \in DOMAIN pc : RunASREvaluation(p)
    \/ \E p \in DOMAIN pc : GetASRTestCase(p)
    \/ \E p \in DOMAIN pc : GetVendorConfig(p)
    \/ \E p \in DOMAIN pc : RecognizePair(p)
    \/ \E p \in DOMAIN pc : CreateASREvaluationResult(p)
    \/ \E p \in DOMAIN pc : UpdateFinalStatus(p)
    \/ \E p \in DOMAIN pc : UpdateCompletedAt(p)
    \/ \E p \in DOMAIN pc : GetFinalJob(p)

Spec == Init /\ [][Next]_vars

\* ------------------------------------------------ RunASREvaluation on its own

\* The state in which line 88 of CreateAndRunASRJob calls RunASREvaluation: the
\* job of the request is stored, RUNNING, with its started_at.
RunInit ==
    /\ DB = TRUE
    /\ globalObjectStoreClient \in BOOLEAN
    /\ asr_test_cases = InitialTestCases
    /\ vendor_configs = InitialVendorConfigs
    /\ vendor_configs_id_seq = Cardinality(VendorConfigIDSpace)
    /\ adminOps = 0
    /\ testCaseIDs \in [Requests -> IDLists(TestCaseIDSpace, MaxTestCases)]
    /\ vendorConfigIDs \in [Requests -> IDLists(VendorConfigIDSpace, MaxVendors)]
    /\ evaluation_jobs =
          UpdateEvaluationJobTimestamps(
              UpdateEvaluationJobStatus(
                  InsertJob(<<>>, JobStatusPending, testCaseIDs[1], vendorConfigIDs[1]),
                  1, JobStatusRunning),
              1, TRUE, FALSE)
    /\ asr_evaluation_results = <<>>
    /\ faults = 0
    /\ pc = [p \in Requests |-> "RunASREvaluation"]
    /\ job = [p \in Requests |-> GetEvaluationJob(evaluation_jobs, 1)]
    /\ evalErr = [p \in Requests |-> Unassigned]
    /\ tcIdx = [p \in Requests |-> 1]
    /\ vIdx = [p \in Requests |-> 1]
    /\ testCase = [p \in Requests |-> NilTestCase]
    /\ vendorConfig = [p \in Requests |-> NilVendorConfig]
    /\ adapter = [p \in Requests |-> Nil]
    /\ result = [p \in Requests |->
                    BuildResult(0, NilTestCase, NilVendorConfig, RecognizeOK(<<>>))]
    /\ response = [p \in Requests |-> NoResponse]
    /\ calls = [p \in Requests |-> <<>>]
    /\ NoMetricCall
    /\ NoUpload

\* The steps of RunASREvaluation, from its call to its return.
RunNext ==
    \/ \E p \in DOMAIN pc : RunASREvaluation(p)
    \/ \E p \in DOMAIN pc : GetASRTestCase(p)
    \/ \E p \in DOMAIN pc : GetVendorConfig(p)
    \/ \E p \in DOMAIN pc : RecognizePair(p)
    \/ \E p \in DOMAIN pc : CreateASREvaluationResult(p)

\* Every collaborator call returns and the single thread of the run goes on: a
\* step that can be taken is eventually taken.
RunSpec == RunInit /\ [][RunNext]_vars /\ WF_vars(RunNext)

\* ------------------------------ jobs while vendor configurations are managed

\* Vendor configuration requests (create, update, delete) served in one behaviour.
MaxAdminOps == 1

\* Two CreateASRJobHandler requests, served at the same time.
AdminRequests == {1, 2}

\* The ids their jobs name.
AdminTestCaseIDs == {1}
AdminVendorIDs == {1, 2}

\* The names an administrator gives a vendor configuration.
AdminNames == {"MockASR", "MockASR-Error"}

\* The state in which both requests are at line 88 of CreateAndRunASRJob: their
\* jobs are stored, RUNNING, with their started_at.
AdminInit ==
    /\ DB = TRUE
    /\ globalObjectStoreClient = TRUE
    /\ asr_test_cases = InitialTestCases
    /\ vendor_configs = InitialVendorConfigs
    /\ vendor_configs_id_seq = Cardinality(VendorConfigIDSpace)
    /\ adminOps = 0
    /\ testCaseIDs \in [AdminRequests ->
                            IDLists(AdminTestCaseIDs, Cardinality(AdminTestCaseIDs))]
    /\ vendorConfigIDs \in [AdminRequests ->
                                IDLists(AdminVendorIDs, Cardinality(AdminVendorIDs))]
    /\ evaluation_jobs =
          LET first  == InsertJob(<<>>, JobStatusPending, testCaseIDs[1], vendorConfigIDs[1])
              second == InsertJob(first, JobStatusPending, testCaseIDs[2], vendorConfigIDs[2])
              RunningAt(jobs, id) ==
                  UpdateEvaluationJobTimestamps(
                      UpdateEvaluationJobStatus(jobs, id, JobStatusRunning), id, TRUE, FALSE)
          IN  RunningAt(RunningAt(second, 1), 2)
    /\ asr_evaluation_results = <<>>
    /\ faults = 0
    /\ pc = [p \in AdminRequests |-> "RunASREvaluation"]
    /\ job = [p \in AdminRequests |-> GetEvaluationJob(evaluation_jobs, p)]
    /\ evalErr = [p \in AdminRequests |-> Unassigned]
    /\ tcIdx = [p \in AdminRequests |-> 1]
    /\ vIdx = [p \in AdminRequests |-> 1]
    /\ testCase = [p \in AdminRequests |-> NilTestCase]
    /\ vendorConfig = [p \in AdminRequests |-> NilVendorConfig]
    /\ adapter = [p \in AdminRequests |-> Nil]
    /\ result = [p \in AdminRequests |->
                    BuildResult(0, NilTestCase, NilVendorConfig, RecognizeOK(<<>>))]
    /\ response = [p \in AdminRequests |-> NoResponse]
    /\ calls = [p \in AdminRequests |-> <<>>]
    /\ NoMetricCall
    /\ NoUpload

adminFrame ==
    <<DB, globalObjectStoreClient, asr_test_cases, reqVars, loopVars, evaluation_jobs,
      faults, pc, job, evalErr, response, calls, metricVars, objectVars>>

\* CreateVendorConfigHandler: a valid payload is stored under the next id of the
\* serial.
CreateVendorConfigHandler ==
    /\ adminOps < MaxAdminOps
    /\ adminOps' = adminOps + 1
    /\ \E name \in AdminNames :
          /\ vendor_configs_id_seq' = vendor_configs_id_seq + 1
          /\ vendor_configs' =
                InsertVendorConfig(vendor_configs, vendor_configs_id_seq + 1, name)
    /\ UNCHANGED <<adminFrame, asr_evaluation_results>>

\* UpdateVendorConfigHandler: the row of the id is overwritten with the payload;
\* an id without a row is answered 404 and changes nothing.
UpdateVendorConfigHandler ==
    /\ adminOps < MaxAdminOps
    /\ adminOps' = adminOps + 1
    /\ \E id \in DOMAIN vendor_configs, name \in AdminNames :
          vendor_configs' = UpdateVendorConfig(vendor_configs, id, name)
    /\ UNCHANGED <<adminFrame, vendor_configs_id_seq, asr_evaluation_results>>

\* DeleteVendorConfigHandler: the row of the id is deleted, and the database
\* applies the foreign key of asr_evaluation_results; an id without a row is
\* answered 404 and changes nothing.
DeleteVendorConfigHandler ==
    /\ adminOps < MaxAdminOps
    /\ adminOps' = adminOps + 1
    /\ \E id \in DOMAIN vendor_configs :
          /\ vendor_configs' = DeleteVendorConfig(vendor_configs, id)
          /\ asr_evaluation_results' = OnDeleteSetNull(asr_evaluation_results, id)
    /\ UNCHANGED <<adminFrame, vendor_configs_id_seq>>

AdminNext ==
    \/ \E p \in DOMAIN pc : RunASREvaluation(p)
    \/ \E p \in DOMAIN pc : GetASRTestCase(p)
    \/ \E p \in DOMAIN pc : GetVendorConfig(p)
    \/ \E p \in DOMAIN pc : RecognizePair(p)
    \/ \E p \in DOMAIN pc : CreateASREvaluationResult(p)
    \/ \E p \in DOMAIN pc : UpdateFinalStatus(p)
    \/ \E p \in DOMAIN pc : UpdateCompletedAt(p)
    \/ CreateVendorConfigHandler
    \/ UpdateVendorConfigHandler
    \/ DeleteVendorConfigHandler

AdminSpec == AdminInit /\ [][AdminNext]_vars

\* ------------------------------------------- a run over the documented vendors

\* The names that the setup guide gives as the keys of the adapter registry.
DocumentedKeys ==
    <<"MockASR", "MockASR-Error", "GoogleASR", "MicrosoftASR", "DeepgramASR", "TencentASR",
      "AlibabaASR", "VolcengineASR">>

\* A name of the administrator's own, the guide's example.
UserDefinedName == "MyGoogleASR-US-Central"

\* The rows of vendor_configs of an installation set up by the guide: a
\* configuration under each documented key, one under the name of the Google
\* case of GetASRAdapter, and one under a name of the administrator's own.
GuideVendorConfigs ==
    [id \in 1..(Len(DocumentedKeys) + 2) |->
        [ID   |-> id,
         Name |-> IF id <= Len(DocumentedKeys) THEN DocumentedKeys[id]
                  ELSE IF id = Len(DocumentedKeys) + 1 THEN "GoogleCloudASR"
                  ELSE UserDefinedName]]

\* The test cases a job names: one with a ground truth, one without, one whose
\* ground truth is a single space.
GuideTestCaseIDs == {1, 4, 6}

\* The state in which line 88 of CreateAndRunASRJob calls RunASREvaluation for a
\* job of one test case and of vendors of that installation.
GuideInit ==
    /\ DB = TRUE
    /\ globalObjectStoreClient \in BOOLEAN
    /\ asr_test_cases = InitialTestCases
    /\ vendor_configs = GuideVendorConfigs
    /\ vendor_configs_id_seq = Len(GuideVendorConfigs)
    /\ adminOps = 0
    /\ testCaseIDs \in [Requests -> {<<id>> : id \in GuideTestCaseIDs}]
    /\ vendorConfigIDs \in [Requests -> IDLists(DOMAIN GuideVendorConfigs, MaxVendors)]
    /\ evaluation_jobs =
          UpdateEvaluationJobTimestamps(
              UpdateEvaluationJobStatus(
                  InsertJob(<<>>, JobStatusPending, testCaseIDs[1], vendorConfigIDs[1]),
                  1, JobStatusRunning),
              1, TRUE, FALSE)
    /\ asr_evaluation_results = <<>>
    /\ faults = 0
    /\ pc = [p \in Requests |-> "RunASREvaluation"]
    /\ job = [p \in Requests |-> GetEvaluationJob(evaluation_jobs, 1)]
    /\ evalErr = [p \in Requests |-> Unassigned]
    /\ tcIdx = [p \in Requests |-> 1]
    /\ vIdx = [p \in Requests |-> 1]
    /\ testCase = [p \in Requests |-> NilTestCase]
    /\ vendorConfig = [p \in Requests |-> NilVendorConfig]
    /\ adapter = [p \in Requests |-> Nil]
    /\ result = [p \in Requests |->
                    BuildResult(0, NilTestCase, NilVendorConfig, RecognizeOK(<<>>))]
    /\ response = [p \in Requests |-> NoResponse]
    /\ calls = [p \in Requests |-> <<>>]
    /\ NoMetricCall
    /\ NoUpload

GuideSpec == GuideInit /\ [][RunNext]_vars

\* -------------------------------------------- two requests served at the same time

\* The ids the two requests name: each names one test case, and one or both of
\* the vendors.
JobsTestCaseIDs == {1, 3}
JobsVendorIDs == {1, 2}

\* Two CreateASRJobHandler requests have arrived; gin serves each in a goroutine
\* of its own.
JobsInit ==
    /\ DB = TRUE
    /\ globalObjectStoreClient = TRUE
    /\ asr_test_cases = InitialTestCases
    /\ vendor_configs = InitialVendorConfigs
    /\ vendor_configs_id_seq = Cardinality(VendorConfigIDSpace)
    /\ adminOps = 0
    /\ evaluation_jobs = <<>>
    /\ asr_evaluation_results = <<>>
    /\ faults = 0
    /\ pc = [p \in AdminRequests |-> "CreateEvaluationJob"]
    /\ testCaseIDs \in [AdminRequests -> {<<id>> : id \in JobsTestCaseIDs}]
    /\ vendorConfigIDs \in [AdminRequests ->
                                IDLists(JobsVendorIDs, Cardinality(JobsVendorIDs))]
    /\ job = [p \in AdminRequests |-> NilJob]
    /\ evalErr = [p \in AdminRequests |-> Unassigned]
    /\ tcIdx = [p \in AdminRequests |-> 1]
    /\ vIdx = [p \in AdminRequests |-> 1]
    /\ testCase = [p \in AdminRequests |-> NilTestCase]
    /\ vendorConfig = [p \in AdminRequests |-> NilVendorConfig]
    /\ adapter = [p \in AdminRequests |-> Nil]
    /\ result = [p \in AdminRequests |->
                    BuildResult(0, NilTestCase, NilVendorConfig, RecognizeOK(<<>>))]
    /\ response = [p \in AdminRequests |-> NoResponse]
    /\ calls = [p \in AdminRequests |-> <<>>]
    /\ NoMetricCall
    /\ NoUpload

\* The statements of the two requests interleave.
JobsSpec == JobsInit /\ [][Next]_vars

\* ------------------------------------------- the metric functions on their own

\* Most characters of a string given to a metric function.
MaxLen == 3

\* The characters of the strings: a one-byte letter, a two-byte letter and the
\* space.
Chars == {"a", "U+00E9", " "}

\* The UTF-8 bytes of a character, and of a sequence of characters.
EncodeRune(c) == IF c = "U+00E9" THEN <<"0xC3", "0xA9">> ELSE <<c>>

RECURSIVE EncodeRunes(_)
EncodeRunes(q) == IF Len(q) = 0 THEN <<>> ELSE EncodeRune(Head(q)) \o EncodeRunes(Tail(q))

\* The texts of at most MaxLen characters.
Texts == UNION {SeqsOfLen(Chars, n) : n \in 0..MaxLen}

\* The strings a caller holds: the valid UTF-8 of a text (a TEXT column of the
\* database and a decoded JSON string are valid UTF-8).
Strings == {EncodeRunes(q) : q \in Texts}

\* Most words of a sentence given to a metric function.
MaxWords == 3

\* The sentences of at most MaxWords one-letter words, a space between two words.
RECURSIVE SentencesOf(_)
SentencesOf(n) ==
    IF n = 1 THEN {EncodeRune(c) : c \in Chars \ {" "}}
    ELSE {s \o <<" ">> \o EncodeRune(c) : s \in SentencesOf(n - 1), c \in Chars \ {" "}}

Sentences == UNION {SentencesOf(n) : n \in 1..MaxWords}

\* The reference and hypothesis pairs of the documented scenarios.
TheCatSat == <<"t", "h", "e", " ", "c", "a", "t", " ", "s", "a", "t">>
TheHatSat == <<"t", "h", "e", " ", "h", "a", "t", " ", "s", "a", "t">>
Hello == <<"h", "e", "l", "l", "o">>
HelloWorld == <<"h", "e", "l", "l", "o", " ", "w", "o", "r", "l", "d">>
OneWord == <<"a">>
SixWords == <<"a", " ", "a", " ", "a", " ", "a", " ", "a", " ", "a">>

Scenarios ==
    {<<TheCatSat, TheHatSat>>, <<Hello, HelloWorld>>, <<HelloWorld, Hello>>,
     <<OneWord, SixWords>>}

\* The arguments of a call: any two strings, any two sentences, or those of a
\* scenario.
MetricInputs == (Strings \X Strings) \cup (Sentences \X Sentences) \cup Scenarios

\* A caller is about to call the metric functions on a reference and a
\* hypothesis; no request is being served.
MetricsInit ==
    /\ InitRequests({})
    /\ globalObjectStoreClient = TRUE
    /\ \E in \in MetricInputs :
          /\ groundTruth = in[1]
          /\ recognizedText = in[2]
    /\ cerOut = <<>>
    /\ cerSwapped = <<>>
    /\ werOut = <<>>
    /\ NoUpload

CallCalculateCER ==
    /\ cerOut = <<>>
    /\ cerOut' = <<CalculateCER(groundTruth, recognizedText)>>
    /\ UNCHANGED <<groundTruth, recognizedText, cerSwapped, werOut>>
    /\ UNCHANGED <<storeVars, reqVars, loopVars, evaluation_jobs, asr_evaluation_results,
                   faults, pc, job, evalErr, response, calls>>

CallCalculateWER ==
    /\ werOut = <<>>
    /\ werOut' = <<CalculateWER(groundTruth, recognizedText)>>
    /\ UNCHANGED <<groundTruth, recognizedText, cerOut, cerSwapped>>
    /\ UNCHANGED <<storeVars, reqVars, loopVars, evaluation_jobs, asr_evaluation_results,
                   faults, pc, job, evalErr, response, calls>>

\* The call CalculateCER(recognizedText, groundTruth) of a caller that scores
\* both ways.
CallCalculateCERSwapped ==
    /\ cerSwapped = <<>>
    /\ cerSwapped' = <<CalculateCER(recognizedText, groundTruth)>>
    /\ UNCHANGED <<groundTruth, recognizedText, cerOut, werOut>>
    /\ UNCHANGED <<storeVars, reqVars, loopVars, evaluation_jobs, asr_evaluation_results,
                   faults, pc, job, evalErr, response, calls>>

MetricsNext ==
    \/ CallCalculateCER
    \/ CallCalculateCERSwapped
    \/ CallCalculateWER

MetricsSpec == MetricsInit /\ [][MetricsNext]_vars

\* ------------------------------------------------ CreateASRTestCaseHandler

\* CreateASRTestCaseHandler requests served at the same time.
MaxUploads == 2
UploadRequests == 1..MaxUploads

\* The form field "name": missing, or given.
FormNames == {"", "short_clip"}

\* The form field "tags": missing, a JSON array, or a text that is not JSON.
FormTags == {"", "[\"short\"]", "[short"}

\* json.Valid, over the texts of FormTags.
JSONValid(tagsStr) == tagsStr = "[\"short\"]"

\* No object, no row: the zero values of objectName and id.
NoObject == 0
NoRow == 0

\* UploadFile: uuid.New() gives each upload a name no other object has.
NewObjectName(u) == u

\* A fresh installation (init.sql): no test case and no object yet; each request
\* has its form and is about to upload its audio file (line 53).
UploadInit ==
    /\ DB = TRUE
    /\ globalObjectStoreClient = TRUE
    /\ globalMinioClient \in BOOLEAN
    /\ objectStoreUp = TRUE
    /\ asr_test_cases = <<>>
    /\ audio_file_path = <<>>
    /\ bucket = {}
    /\ upload \in [UploadRequests ->
                     [pc : {"UploadFile"}, name : FormNames, tags : FormTags,
                      objectName : {NoObject}, cleanup : {"none"}, code : {0}, id : {NoRow}]]
    /\ vendor_configs = InitialVendorConfigs
    /\ vendor_configs_id_seq = Cardinality(VendorConfigIDSpace)
    /\ adminOps = 0
    /\ evaluation_jobs = <<>>
    /\ asr_evaluation_results = <<>>
    /\ faults = 0
    /\ pc = <<>>
    /\ testCaseIDs = <<>>
    /\ vendorConfigIDs = <<>>
    /\ job = <<>>
    /\ evalErr = <<>>
    /\ tcIdx = <<>>
    /\ vIdx = <<>>
    /\ testCase = <<>>
    /\ vendorConfig = <<>>
    /\ adapter = <<>>
    /\ result = <<>>
    /\ response = <<>>
    /\ calls = <<>>
    /\ NoMetricCall

\* What CreateASRTestCaseHandler and its goroutines leave alone.
uploadFrame ==
    <<DB, globalObjectStoreClient, globalMinioClient, vendor_configs, vendor_configs_id_seq,
      adminOps, reqVars, loopVars, evaluation_jobs, asr_evaluation_results, faults, pc, job,
      evalErr, response, calls, metricVars>>

\* The handler answers request u with this status code and returns.
Answer(u, code) == upload' = [upload EXCEPT ![u].code = code, ![u].pc = "done"]

\* A variant of the rejection that starts no goroutine.
RejectWithoutCleanup(u, code) == Answer(u, code)

\* Lines 72-79, 99-107 and 115-124: the handler starts a goroutine that deletes
\* the uploaded object, answers with the error and returns.
RejectAfterUpload(u, code) ==
    upload' = [upload EXCEPT ![u].cleanup = "started", ![u].code = code, ![u].pc = "done"]

\* Lines 53-65: the client, then UploadFile (PutObject under a new name).
UploadFile(u) ==
    /\ upload[u].pc = "UploadFile"
    /\ IF globalMinioClient /\ objectStoreUp
       THEN /\ bucket' = bucket \cup {NewObjectName(u)}
            /\ upload' = [upload EXCEPT ![u].objectName = NewObjectName(u),
                                        ![u].pc = "ValidateName"]
       ELSE /\ Answer(u, 500)
            /\ UNCHANGED bucket
    /\ UNCHANGED <<uploadFrame, objectStoreUp, asr_test_cases, audio_file_path>>

\* Lines 67-81: the name is required.
ValidateName(u) ==
    /\ upload[u].pc = "ValidateName"
    /\ IF upload[u].name = ""
       THEN RejectAfterUpload(u, 400)
       ELSE upload' = [upload EXCEPT ![u].pc = "ValidateTags"]
    /\ UNCHANGED <<uploadFrame, objectStoreUp, bucket, asr_test_cases, audio_file_path>>

\* Lines 94-111: the tags, when given, must be valid JSON.
ValidateTags(u) ==
    /\ upload[u].pc = "ValidateTags"
    /\ IF upload[u].tags /= "" /\ ~JSONValid(upload[u].tags)
       THEN RejectAfterUpload(u, 400)
       ELSE upload' = [upload EXCEPT ![u].pc = "CreateASRTestCase"]
    /\ UNCHANGED <<uploadFrame, objectStoreUp, bucket, asr_test_cases, audio_file_path>>

\* CreateASRTestCase: the tables after the INSERT of a row under the next id of
\* the serial, with the object name in audio_file_path.
InsertTestCase(table, id, row) ==
    [i \in DOMAIN table \cup {id} |-> IF i = id THEN row ELSE table[i]]

\* Lines 113-135: the row is inserted and the handler answers 201 (with the
\* refetched row, or with its own when the refetch fails), or the insert fails.
CreateASRTestCase(u) ==
    /\ upload[u].pc = "CreateASRTestCase"
    /\ \E ok \in JobStoreOutcomes :
          IF DB /\ ok
          THEN LET id == Cardinality(DOMAIN asr_test_cases) + 1
               IN  /\ asr_test_cases' =
                         InsertTestCase(asr_test_cases, id,
                                        [ID |-> id, GroundTruthText |-> NullStringInvalid])
                   /\ audio_file_path' =
                         InsertTestCase(audio_file_path, id, upload[u].objectName)
                   /\ upload' = [upload EXCEPT ![u].id = id, ![u].code = 201, ![u].pc = "done"]
          ELSE /\ RejectAfterUpload(u, 500)
               /\ UNCHANGED <<asr_test_cases, audio_file_path>>
    /\ UNCHANGED <<uploadFrame, objectStoreUp, bucket>>

\* The goroutine of lines 74-78, 101-105 and 117-123: DeleteFile (RemoveObject),
\* its error logged.
DeleteFile(u) ==
    /\ upload[u].cleanup = "started"
    /\ IF objectStoreUp
       THEN /\ bucket' = bucket \ {upload[u].objectName}
            /\ upload' = [upload EXCEPT ![u].cleanup = "deleted"]
       ELSE /\ upload' = [upload EXCEPT ![u].cleanup = "failed"]
            /\ UNCHANGED bucket
    /\ UNCHANGED <<uploadFrame, objectStoreUp, asr_test_cases, audio_file_path>>

\* The MinIO server stops answering.
ObjectStoreFails ==
    /\ objectStoreUp
    /\ objectStoreUp' = FALSE
    /\ UNCHANGED <<uploadFrame, bucket, asr_test_cases, audio_file_path, upload>>

UploadNext ==
    \/ \E u \in DOMAIN upload : UploadFile(u)
    \/ \E u \in DOMAIN upload : ValidateName(u)
    \/ \E u \in DOMAIN upload : ValidateTags(u)
    \/ \E u \in DOMAIN upload : CreateASRTestCase(u)
    \/ \E u \in DOMAIN upload : DeleteFile(u)
    \/ ObjectStoreFails

\* The Go scheduler runs every goroutine that was started.
UploadSpec ==
    /\ UploadInit
    /\ [][UploadNext]_vars
    /\ \A u \in UploadRequests : WF_vars(DeleteFile(u))

\* ====================================================================== claims

\* RunASREvaluation of request p has just returned (line 88 of CreateAndRunASRJob):
\* the run has ended, with every call it made in calls[p].
RunEnded(p) == pc[p] = "UpdateFinalStatus"

\* RunASREvaluation of request p has returned, now or earlier.
Returned(p) == evalErr[p] /= Unassigned

\* The positions of the request's pairs.
TestCasePositions(p) == 1..Len(testCaseIDs[p])
VendorPositions(p) == 1..Len(vendorConfigIDs[p])

\* Request p made the call op for the pair at positions (i, k) with outcome ok.
Made(p, op, i, k, ok) ==
    \E n \in 1..Len(calls[p]) : calls[p][n] = Call(op, i, k, ok)

\* Request p made the call op for the pair at positions (i, k).
Attempted(p, op, i, k) == Made(p, op, i, k, TRUE) \/ Made(p, op, i, k, FALSE)

\* The call request p made last.
LastCall(p) == calls[p][Len(calls[p])]

\* The rows of asr_evaluation_results for the pair at positions (i, k) of p's job.
RowsOf(p, i, k) ==
    {n \in 1..Len(asr_evaluation_results) :
        /\ asr_evaluation_results[n].job_id = job[p].ID
        /\ asr_evaluation_results[n].asr_test_case_id = testCaseIDs[p][i]
        /\ asr_evaluation_results[n].vendor_config_id = vendorConfigIDs[p][k]}

\* The rows of p's job, in insertion order.
JobRows(p) ==
    SelectSeq(asr_evaluation_results, LAMBDA r : r.job_id = job[p].ID)

\* The pair at (i, k) was resolved (test case, vendor and adapter) and inserted.
ResolvedAndInserted(p, i, k) ==
    /\ Made(p, "GetASRTestCase", i, 0, TRUE)
    /\ Made(p, "GetVendorConfig", i, k, TRUE)
    /\ Made(p, "CreateASREvaluationResult", i, k, TRUE)

\* No vendor lookup, adapter selection or insert of request p failed.
VendorsResolveAndPersist(p) ==
    \A n \in 1..Len(calls[p]) :
        calls[p][n].op \in {"GetVendorConfig", "CreateASREvaluationResult"} => calls[p][n].ok

\* The loop of request p went on after the pair at (i, k): the next vendor of
\* the test case was looked up or, after the last vendor, the next test case.
WentOnAfter(p, i, k) ==
    IF k < Len(vendorConfigIDs[p]) THEN Attempted(p, "GetVendorConfig", i, k + 1)
    ELSE i < Len(testCaseIDs[p]) => Attempted(p, "GetASRTestCase", i + 1, 0)

\* C1 as stated: when the run ends, every pair of the request has exactly one
\* persisted result.
C1_OneResultPerPair ==
    \A p \in DOMAIN pc :
        RunEnded(p) =>
            \A i \in TestCasePositions(p), k \in VendorPositions(p) :
                Cardinality(RowsOf(p, i, k)) = 1

\* C1: when the run ends, a pair whose test case, vendor and adapter were
\* resolved and whose insert succeeded has exactly one persisted result, whether
\* or not its Recognizer call succeeded; any other pair has none.
C1_OneResultPerResolvedPair ==
    \A p \in DOMAIN pc :
        RunEnded(p) =>
            \A i \in TestCasePositions(p), k \in VendorPositions(p) :
                Cardinality(RowsOf(p, i, k)) =
                    IF ResolvedAndInserted(p, i, k) THEN 1 ELSE 0

\* A run has ended with a persisted result for a pair whose Recognizer call
\* failed, and one for a pair whose Recognizer call succeeded.
C1_Witness ==
    \E p \in DOMAIN pc :
        /\ RunEnded(p)
        /\ \E i \in TestCasePositions(p), k \in VendorPositions(p) :
              /\ Made(p, "Recognize", i, k, FALSE)
              /\ Cardinality(RowsOf(p, i, k)) = 1
        /\ \E i \in TestCasePositions(p), k \in VendorPositions(p) :
              /\ Made(p, "Recognize", i, k, TRUE)
              /\ Cardinality(RowsOf(p, i, k)) = 1

\* C2: when the run ends, a test-case id whose lookup failed has no result row
\* for any vendor, and the other ids of the list were still processed: every id
\* was looked up and every vendor of a resolved test case was attempted; with 3
\* ids of which only the middle one failed lookup and N vendors that all
\* resolve and persist, the job has exactly 2*N rows, of the first and third.
C2_FailedLookupSkipsOnlyThatTestCase ==
    \A p \in DOMAIN pc :
        RunEnded(p) =>
            /\ \A i \in TestCasePositions(p) :
                  Made(p, "GetASRTestCase", i, 0, FALSE) =>
                      \A n \in 1..Len(asr_evaluation_results) :
                          asr_evaluation_results[n].job_id = job[p].ID =>
                              asr_evaluation_results[n].asr_test_case_id /= testCaseIDs[p][i]
            /\ \A i \in TestCasePositions(p) :
                  /\ Attempted(p, "GetASRTestCase", i, 0)
                  /\ Made(p, "GetASRTestCase", i, 0, TRUE) =>
                        \A k \in VendorPositions(p) : Attempted(p, "GetVendorConfig", i, k)
            /\ ( /\ Len(testCaseIDs[p]) = 3
                  /\ Made(p, "GetASRTestCase", 1, 0, TRUE)
                  /\ Made(p, "GetASRTestCase", 2, 0, FALSE)
                  /\ Made(p, "GetASRTestCase", 3, 0, TRUE)
                  /\ VendorsResolveAndPersist(p) )
               => /\ Len(JobRows(p)) = 2 * Len(vendorConfigIDs[p])
                  /\ \A k \in VendorPositions(p) :
                        /\ Cardinality(RowsOf(p, 1, k)) = 1
                        /\ Cardinality(RowsOf(p, 2, k)) = 0
                        /\ Cardinality(RowsOf(p, 3, k)) = 1

\* A run of 3 test-case ids and 2 vendors has ended; only the middle lookup
\* failed, and there are 4 rows.
C2_Witness ==
    \E p \in DOMAIN pc :
        /\ RunEnded(p)
        /\ Len(testCaseIDs[p]) = 3
        /\ Len(vendorConfigIDs[p]) = 2
        /\ Made(p, "GetASRTestCase", 1, 0, TRUE)
        /\ Made(p, "GetASRTestCase", 2, 0, FALSE)
        /\ Made(p, "GetASRTestCase", 3, 0, TRUE)
        /\ VendorsResolveAndPersist(p)
        /\ Len(JobRows(p)) = 4

\* Both metrics of a result are unset / set.
MetricsUnset(r) == ~r.cer.Valid /\ ~r.wer.Valid
MetricsSet(r) == r.cer.Valid /\ r.wer.Valid

\* The recognized_text of r is the "Recognition Error: ..." text.
RecordsError(r) ==
    /\ r.recognized_text.Valid
    /\ Len(r.recognized_text.String) >= Len(ErrorPrefix)
    /\ SubSeq(r.recognized_text.String, 1, Len(ErrorPrefix)) = ErrorPrefix

\* Request p is handing the result it built for the current pair to the store.
HandingOver(p) == pc[p] = "CreateASREvaluationResult"

\* C3: a pair whose Recognizer call returned an error still has its result
\* handed to the store, with CER and WER unset and the error recorded, once, and
\* the run goes on with the next pair; in a job of 2 test cases with ground
\* truth and 2 vendors of which the second always errors, with no lookup or
\* insert failing, there are 4 rows when the run ends: the 2 of the failing
\* vendor with unset metrics, the 2 of the other vendor with computed metrics.
C3_RecognizerErrorStillEmitsResult ==
    \A p \in DOMAIN pc :
        /\ (HandingOver(p) /\ ~LastCall(p).ok) =>
              /\ LastCall(p) = Call("Recognize", tcIdx[p], vIdx[p], FALSE)
              /\ MetricsUnset(result[p])
              /\ RecordsError(result[p])
        /\ RunEnded(p) =>
              /\ \A i \in TestCasePositions(p), k \in VendorPositions(p) :
                    Made(p, "Recognize", i, k, FALSE) =>
                        /\ Attempted(p, "CreateASREvaluationResult", i, k)
                        /\ Made(p, "CreateASREvaluationResult", i, k, TRUE)
                              => Cardinality(RowsOf(p, i, k)) = 1
                        /\ \A n \in RowsOf(p, i, k) :
                              /\ MetricsUnset(asr_evaluation_results[n])
                              /\ RecordsError(asr_evaluation_results[n])
                        /\ WentOnAfter(p, i, k)
              /\ ( /\ testCaseIDs[p] = <<1, 3>>
                    /\ vendorConfigIDs[p] = <<1, 2>>
                    /\ \A i \in 1..2 : Made(p, "GetASRTestCase", i, 0, TRUE)
                    /\ VendorsResolveAndPersist(p) )
                 => /\ Len(JobRows(p)) = 4
                    /\ \A i \in 1..2 :
                          /\ Cardinality(RowsOf(p, i, 1)) = 1
                          /\ Cardinality(RowsOf(p, i, 2)) = 1
                          /\ \A n \in RowsOf(p, i, 1) :
                                MetricsSet(asr_evaluation_results[n])
                          /\ \A n \in RowsOf(p, i, 2) :
                                MetricsUnset(asr_evaluation_results[n])

\* The 2 x 2 job has ended with its 4 rows, 2 of them with the error recorded
\* and 2 with metrics.
C3_Witness ==
    \E p \in DOMAIN pc :
        /\ RunEnded(p)
        /\ testCaseIDs[p] = <<1, 3>>
        /\ vendorConfigIDs[p] = <<1, 2>>
        /\ Len(JobRows(p)) = 4
        /\ Made(p, "Recognize", 1, 2, FALSE)
        /\ Made(p, "Recognize", 2, 2, FALSE)
        /\ Cardinality({n \in 1..4 : RecordsError(JobRows(p)[n])}) = 2
        /\ Cardinality({n \in 1..4 : MetricsSet(JobRows(p)[n])}) = 2

\* The ground truth of the test case with this id is absent: NULL, or empty.
GroundTruthAbsent(id) ==
    \/ ~asr_test_cases[id].GroundTruthText.Valid
    \/ asr_test_cases[id].GroundTruthText.String = <<>>

\* C4: every result of a test case whose ground truth is absent (NULL or the
\* empty string) has CER and WER unset, whatever the Recognizer returned: the
\* result handed to the store, and every row of the job when the run ends.
C4_NoGroundTruthNoMetrics ==
    \A p \in DOMAIN pc :
        /\ (HandingOver(p) /\ GroundTruthAbsent(testCase[p].ID)) => MetricsUnset(result[p])
        /\ RunEnded(p) =>
              \A n \in 1..Len(asr_evaluation_results) :
                  GroundTruthAbsent(asr_evaluation_results[n].asr_test_case_id)
                      => MetricsUnset(asr_evaluation_results[n])

\* A run has ended with rows of successful Recognizer calls for the test case
\* whose ground truth is NULL and for the one whose ground truth is the empty
\* string, the latter with an empty recognized text.
C4_Witness ==
    /\ \E p \in DOMAIN pc : RunEnded(p)
    /\ \E n \in 1..Len(asr_evaluation_results) :
          /\ ~asr_test_cases[asr_evaluation_results[n].asr_test_case_id].GroundTruthText.Valid
          /\ ~RecordsError(asr_evaluation_results[n])
    /\ \E n \in 1..Len(asr_evaluation_results) :
          /\ asr_test_cases[asr_evaluation_results[n].asr_test_case_id].GroundTruthText
                = NullStringOf(<<>>)
          /\ asr_evaluation_results[n].recognized_text = NullStringOf(<<>>)

\* What the metric functions return for result r: its test case's ground truth
\* against its recognized text.
CEROf(r) ==
    CalculateCER(asr_test_cases[r.asr_test_case_id].GroundTruthText.String,
                 r.recognized_text.String)
WEROf(r) ==
    CalculateWER(asr_test_cases[r.asr_test_case_id].GroundTruthText.String,
                 r.recognized_text.String)

\* The metric functions were called for r (lines 84-87), and the metric fields
\* of r that report an error are unset.
DegenerateUnset(r) ==
    (~GroundTruthAbsent(r.asr_test_case_id) /\ ~RecordsError(r)) =>
        /\ CEROf(r).err => ~r.cer.Valid
        /\ WEROf(r).err => ~r.wer.Valid

\* C5: when CalculateCER (CalculateWER) returns a non-nil error for a result,
\* its CER (WER) field is unset, so the 1.0 returned with the error is never
\* stored: in the result handed to the store, and in every row when the run ends.
C5_DegenerateMetricUnset ==
    \A p \in DOMAIN pc :
        /\ HandingOver(p) => DegenerateUnset(result[p])
        /\ RunEnded(p) =>
              \A n \in 1..Len(asr_evaluation_results) :
                  DegenerateUnset(asr_evaluation_results[n])

\* A stored row of a successful Recognizer call on a test case with a ground
\* truth, for which CalculateWER returned the error with the value 1.0.
C5_Witness ==
    \E n \in 1..Len(asr_evaluation_results) :
        LET r == asr_evaluation_results[n]
        IN  /\ ~GroundTruthAbsent(r.asr_test_case_id)
            /\ ~RecordsError(r)
            /\ WEROf(r).err
            /\ FloatEq(WEROf(r).value, Float(1, 1))
            /\ ~r.wer.Valid
            /\ r.cer.Valid

\* The status column of the row of p's job ("" while there is no row).
PersistedStatus(p) ==
    IF job[p].ID \in 1..Len(evaluation_jobs) THEN evaluation_jobs[job[p].ID].status ELSE ""

\* CreateAndRunASRJob of request p is past its final status update (line 108).
PastFinalStatus(p) == pc[p] \in {"UpdateCompletedAt", "GetFinalJob", "done"} /\ Returned(p)

\* The final status update of request p succeeded.
FinalStatusWritten(p) == Made(p, "UpdateEvaluationJobStatus", 0, 0, TRUE)

\* Some lookup, Recognizer call or insert of request p failed.
SomePairFailed(p) ==
    \E n \in 1..Len(calls[p]) :
        /\ calls[p][n].op \in {"GetASRTestCase", "GetVendorConfig", "Recognize",
                                "CreateASREvaluationResult"}
        /\ ~calls[p][n].ok

RunComplete(p) ==
    /\ evalErr[p] = Nil
    /\ \A i \in TestCasePositions(p) :
          /\ Attempted(p, "GetASRTestCase", i, 0)
          /\ Made(p, "GetASRTestCase", i, 0, TRUE) =>
                \A k \in VendorPositions(p) : Attempted(p, "GetVendorConfig", i, k)

\* C7 (under RunSpec): when every collaborator call returns, a call of
\* RunASREvaluation leads to its return with a nil error, every test-case id
\* looked up and, for each test case that resolved, every vendor id looked up,
\* whatever failed.
C7_RunTerminatesWithNil ==
    \A p \in Requests : (pc[p] = "RunASREvaluation") ~> RunComplete(p)

\* A run has returned complete although a test-case lookup, a vendor lookup, a
\* Recognizer call and an insert failed in it.
C7_Witness ==
    \E p \in DOMAIN pc :
        /\ RunComplete(p)
        /\ \E i \in TestCasePositions(p) : Made(p, "GetASRTestCase", i, 0, FALSE)
        /\ \E i \in TestCasePositions(p), k \in VendorPositions(p) :
              Made(p, "GetVendorConfig", i, k, FALSE)
        /\ \E i \in TestCasePositions(p), k \in VendorPositions(p) :
              /\ Made(p, "Recognize", i, k, FALSE)
              /\ Made(p, "CreateASREvaluationResult", i, k, FALSE)

\* C8: when the run ends, a pair at (i, k) whose vendor could not be resolved
\* had no Recognizer call, nothing handed to the store and no row; every other
\* vendor of the same test case was looked up, and those that were resolved and
\* inserted have their row.
C8_FailedVendorSkipsOnlyThatPair ==
    \A p \in DOMAIN pc :
        RunEnded(p) =>
            \A i \in TestCasePositions(p), k \in VendorPositions(p) :
                Made(p, "GetVendorConfig", i, k, FALSE) =>
                    /\ ~Attempted(p, "Recognize", i, k)
                    /\ ~Attempted(p, "CreateASREvaluationResult", i, k)
                    /\ RowsOf(p, i, k) = {}
                    /\ \A k2 \in VendorPositions(p) \ {k} :
                          /\ Attempted(p, "GetVendorConfig", i, k2)
                          /\ ResolvedAndInserted(p, i, k2)
                                => Cardinality(RowsOf(p, i, k2)) = 1

\* A run has ended in which the first vendor of a test case could not be
\* resolved and the second vendor has its row.
C8_Witness ==
    \E p \in DOMAIN pc :
        /\ RunEnded(p)
        /\ Len(vendorConfigIDs[p]) = 2
        /\ \E i \in TestCasePositions(p) :
              /\ Made(p, "GetVendorConfig", i, 1, FALSE)
              /\ RowsOf(p, i, 1) = {}
              /\ Made(p, "Recognize", i, 2, TRUE)
              /\ Cardinality(RowsOf(p, i, 2)) = 1

\* The number of times request p handed the result of the pair at (i, k) to the store.
PersistAttempts(p, i, k) ==
    Cardinality({n \in 1..Len(calls[p]) :
                    /\ calls[p][n].op = "CreateASREvaluationResult"
                    /\ calls[p][n].tc = i
                    /\ calls[p][n].v = k})

\* Every pair of request p whose insert failed has lost its result (handed to
\* the store once, never stored), and the run went on after it and returned nil.
FailedInsertsLostOnly(p) ==
    \A i \in TestCasePositions(p), k \in VendorPositions(p) :
        Made(p, "CreateASREvaluationResult", i, k, FALSE) =>
            /\ RowsOf(p, i, k) = {}
            /\ PersistAttempts(p, i, k) = 1
            /\ evalErr[p] = Nil
            /\ WentOnAfter(p, i, k)

\* Some insert of request p failed.
SomeInsertFailed(p) ==
    \E n \in 1..Len(calls[p]) :
        calls[p][n].op = "CreateASREvaluationResult" /\ ~calls[p][n].ok

PairBefore(i1, k1, i2, k2) == i1 < i2 \/ (i1 = i2 /\ k1 < k2)

\* The place of a call among the calls made for one pair.
StepOfPair(op) ==
    CASE op = "GetVendorConfig" -> 1
      [] op = "Recognize" -> 2
      [] OTHER -> 3

\* The position of an id in a list without repetition.
PositionIn(ids, id) == CHOOSE i \in 1..Len(ids) : ids[i] = id

\* Row r of p's job comes before row q in order of (position of the test case,
\* position of the vendor).
RowBefore(p, r, q) ==
    PairBefore(PositionIn(testCaseIDs[p], r.asr_test_case_id),
               PositionIn(vendorConfigIDs[p], r.vendor_config_id),
               PositionIn(testCaseIDs[p], q.asr_test_case_id),
               PositionIn(vendorConfigIDs[p], q.vendor_config_id))

Short == groundTruth \in Strings /\ recognizedText \in Strings

\* The arguments of the call are sentences of at most MaxWords words.
Spoken == groundTruth \in Sentences /\ recognizedText \in Sentences

\* The code points of a string: the text whose UTF-8 encoding the string is.
CodePoints(s) == CHOOSE q \in Texts : EncodeRunes(q) = s

Least(S) == CHOOSE x \in S : \A y \in S : x <= y

\* The members of a set of positions, in increasing order.
RECURSIVE Ascending(_)
Ascending(S) == IF S = {} THEN <<>> ELSE <<Least(S)>> \o Ascending(S \ {Least(S)})

\* An alignment of a and b keeps the positions A of a and the positions B of b,
\* as many, and pairs them in order.  It deletes the other items of a, inserts
\* the other items of b and substitutes the paired items that differ.
Alignments(a, b) ==
    {al \in (SUBSET (1..Len(a))) \X (SUBSET (1..Len(b))) :
        Cardinality(al[1]) = Cardinality(al[2])}

Edits(a, b, al) ==
    LET A == Ascending(al[1])
        B == Ascending(al[2])
    IN  (Len(a) - Len(A)) + (Len(b) - Len(B))
          + Cardinality({n \in 1..Len(A) : a[A[n]] /= b[B[n]]})

\* The unit-cost Levenshtein distance: the fewest insertions, deletions and
\* substitutions that turn a into b.
EditDistance(a, b) == Least({Edits(a, b, al) : al \in Alignments(a, b)})

\* The metric function has returned the score num / den, with no error.
Scored(out, num, den) ==
    /\ out /= <<>>
    /\ ~out[1].err
    /\ out[1].value.Den > 0
    /\ out[1].value.Num * den = num * out[1].value.Den

\* The metric function has returned the degenerate outcome: an error, with the
\* payload 1.0.
Degenerate(out) ==
    /\ out /= <<>>
    /\ out[1].err
    /\ out[1].value.Num = out[1].value.Den

\* C11: for every non-empty reference and every hypothesis, CalculateCER returns,
\* with no error, the unit-cost Levenshtein distance between the code points of
\* the reference and those of the hypothesis, divided by the number of code
\* points of the reference.
C11_CERIsEditDistanceOverReferenceLength ==
    (cerOut /= <<>> /\ Short /\ groundTruth /= <<>>) =>
        LET ref == CodePoints(groundTruth)
            hyp == CodePoints(recognizedText)
        IN  Scored(cerOut, EditDistance(ref, hyp), Len(ref))

\* CalculateCER has scored the reference "a U+00E9" (three bytes, two code
\* points) against the hypothesis "U+00E9 a": 2/2.
C11_Witness ==
    /\ groundTruth = EncodeRunes(<<"a", "U+00E9">>)
    /\ recognizedText = EncodeRunes(<<"U+00E9", "a">>)
    /\ Scored(cerOut, 2, 2)

\* The words of a string: its maximal runs of characters that are not
\* whitespace, in order.
WordStarts(s) == {i \in 1..Len(s) : s[i] /= " " /\ (i = 1 \/ s[i - 1] = " ")}
WordEnd(s, i) == Least({j \in i..Len(s) : j = Len(s) \/ s[j + 1] = " "})
Words(s) ==
    LET starts == Ascending(WordStarts(s))
    IN  [n \in 1..Len(starts) |-> SubSeq(s, starts[n], WordEnd(s, starts[n]))]

\* C12: for every reference with at least one word, CalculateWER returns, with no
\* error, the unit-cost Levenshtein distance between the word sequences of
\* reference and hypothesis (the maximal runs of non-whitespace) divided by the
\* word count of the reference; for "the cat sat" and "the hat sat" WER is 1/3
\* and CER is 1/11.
C12_WERIsWordEditDistanceOverWordCount ==
    /\ (werOut /= <<>> /\ (Short \/ Spoken) /\ Len(Words(groundTruth)) >= 1) =>
          Scored(werOut, EditDistance(Words(groundTruth), Words(recognizedText)),
                 Len(Words(groundTruth)))
    /\ (groundTruth = TheCatSat /\ recognizedText = TheHatSat) =>
          /\ werOut /= <<>> => Scored(werOut, 1, 3)
          /\ cerOut /= <<>> => Scored(cerOut, 1, 11)

\* Both functions have scored "the cat sat" against "the hat sat".
C12_Witness ==
    /\ groundTruth = TheCatSat
    /\ recognizedText = TheHatSat
    /\ Scored(werOut, 1, 3)
    /\ Scored(cerOut, 1, 11)

\* C13: CalculateCER("", "") returns 0.0 with no error, and CalculateCER("", h)
\* for every non-empty h returns the degenerate outcome (an error, with the
\* payload 1.0), never a score and never a division by zero.
C13_CEREmptyReference ==
    (cerOut /= <<>> /\ groundTruth = <<>>) =>
        /\ cerOut[1].value.Den /= 0
        /\ IF recognizedText = <<>> THEN Scored(cerOut, 0, 1) ELSE Degenerate(cerOut)

\* CalculateCER has returned the degenerate outcome for the empty reference and
\* a hypothesis of one character.
C13_Witness ==
    /\ groundTruth = <<>>
    /\ recognizedText = <<"a">>
    /\ Degenerate(cerOut)
    /\ ~Scored(cerOut, 1, 1)

\* C14: CalculateWER returns 0.0 with no error whenever reference and hypothesis
\* both have zero words, and returns the degenerate outcome exactly when the
\* reference has zero words and the hypothesis at least one.
C14_WEREdgeCasesAtWordLevel ==
    werOut /= <<>> =>
        LET n == Len(Words(groundTruth))
            m == Len(Words(recognizedText))
        IN  /\ (n = 0 /\ m = 0) => Scored(werOut, 0, 1)
            /\ Degenerate(werOut) <=> (n = 0 /\ m >= 1)

\* C15: for any non-empty string s, also one made only of whitespace,
\* CalculateCER(s, s) and CalculateWER(s, s) return 0.0 with no error.
C15_IdenticalStringsScoreZero ==
    (groundTruth /= <<>> /\ recognizedText = groundTruth) =>
        /\ cerOut /= <<>> => Scored(cerOut, 0, 1)
        /\ cerSwapped /= <<>> => Scored(cerSwapped, 0, 1)
        /\ werOut /= <<>> => Scored(werOut, 0, 1)

\* Both functions have scored a string of two spaces against itself.
C15_Witness ==
    /\ groundTruth = <<" ", " ">>
    /\ recognizedText = <<" ", " ">>
    /\ Scored(cerOut, 0, 1)
    /\ Scored(werOut, 0, 1)

\* The number of code points of a valid UTF-8 string: its bytes that are not
\* continuation bytes.
CodePointCount(s) == Cardinality({i \in 1..Len(s) : s[i] /= "0xA9"})

\* The metric function has returned a score greater than 1.0.
ScoredAboveOne(out) ==
    /\ out /= <<>>
    /\ ~out[1].err
    /\ out[1].value.Den > 0
    /\ out[1].value.Num > out[1].value.Den

\* C16: the values are not clamped to [0,1]: CalculateWER("a", "a a a a a a")
\* returns 5.0, and for a reference of n >= 1 tokens and a hypothesis of more
\* than 2n tokens the value returned (by CalculateWER for words, by CalculateCER
\* for code points) is greater than 1.0.
C16_ValuesNotClamped ==
    /\ (groundTruth = OneWord /\ recognizedText = SixWords /\ werOut /= <<>>) =>
          Scored(werOut, 5, 1)
    /\ (/\ werOut /= <<>>
        /\ Len(Words(groundTruth)) >= 1
        /\ Len(Words(recognizedText)) > 2 * Len(Words(groundTruth))) =>
          ScoredAboveOne(werOut)
    /\ (/\ cerOut /= <<>>
        /\ CodePointCount(groundTruth) >= 1
        /\ CodePointCount(recognizedText) > 2 * CodePointCount(groundTruth)) =>
          ScoredAboveOne(cerOut)

\* CalculateWER has returned 5.0 for the reference "a" and the six-word
\* hypothesis, and CalculateCER 10.0.
C16_Witness ==
    /\ groundTruth = OneWord
    /\ recognizedText = SixWords
    /\ Scored(werOut, 5, 1)
    /\ Scored(cerOut, 10, 1)

\* C17: CalculateCER divides by the length of its first argument only and the
\* distance is symmetric: for non-empty a and b, CER(a, b) * len(a) =
\* CER(b, a) * len(b); for "hello" and "hello world" CER(a, b) = 6/5 and
\* CER(b, a) = 6/11.
C17_CERNormalizedByFirstArgument ==
    (cerOut /= <<>> /\ cerSwapped /= <<>> /\ groundTruth /= <<>> /\ recognizedText /= <<>>) =>
        /\ ~cerOut[1].err /\ ~cerSwapped[1].err
        /\ cerOut[1].value.Den = CodePointCount(groundTruth)
        /\ cerSwapped[1].value.Den = CodePointCount(recognizedText)
        /\ cerOut[1].value.Num * CodePointCount(groundTruth) * cerSwapped[1].value.Den
              = cerSwapped[1].value.Num * CodePointCount(recognizedText) * cerOut[1].value.Den
        /\ (groundTruth = Hello /\ recognizedText = HelloWorld) =>
              Scored(cerOut, 6, 5) /\ Scored(cerSwapped, 6, 11)

\* CalculateCER has scored "hello" against "hello world" both ways.
C17_Witness ==
    /\ groundTruth = Hello
    /\ recognizedText = HelloWorld
    /\ Scored(cerOut, 6, 5)
    /\ Scored(cerSwapped, 6, 11)

\* ------------------------------------------------- the results of a run (Spec)

\* The text reads as the placeholder of a failed recognition.
ReadsAsPlaceholder(s) ==
    /\ Len(s) >= Len(ErrorPrefix)
    /\ SubSeq(s, 1, Len(ErrorPrefix)) = ErrorPrefix

\* C18: when the Recognizer call fails, the recognized text of the result is the
\* placeholder "Recognition Error: " followed by the error, not the empty
\* string; and no result of a successful Recognizer call carries a text that
\* reads as this placeholder.
C18_PlaceholderDistinctFromTranscripts ==
    \A p \in DOMAIN pc :
        HandingOver(p) =>
            LET text == result[p].recognized_text
            IN  /\ text.Valid
                /\ IF LastCall(p).ok
                   THEN ~ReadsAsPlaceholder(text.String)
                   ELSE /\ text.String = ErrorPrefix \o ErrText
                        /\ text.String /= <<>>

\* Every row persisted before the step is, after it, the row it was, or that row
\* with the field changed as allowed.
RowsKeptUpTo(Allowed(_, _)) ==
    \A n \in 1..Len(asr_evaluation_results) :
        /\ n <= Len(asr_evaluation_results')
        /\ \/ asr_evaluation_results'[n] = asr_evaluation_results[n]
           \/ Allowed(asr_evaluation_results[n], asr_evaluation_results'[n])

NoChange(old, new) == FALSE

\* The vendor configuration of the row was deleted in the step, and the row
\* differs in its vendor_config_id alone, now NULL.
VendorDeleted(old, new) ==
    /\ old.vendor_config_id \in DOMAIN vendor_configs
    /\ old.vendor_config_id \notin DOMAIN vendor_configs'
    /\ new = [old EXCEPT !.vendor_config_id = NullID]

\* C19, as claimed (under AdminSpec): once a result row has been persisted, no
\* later operation (a later pair of the same run, another job, a job status or
\* timestamp update, the create, update or delete of a vendor configuration)
\* changes any field of that row.
C19_PersistedRowNeverChanges == [][RowsKeptUpTo(NoChange)]_vars

\* C19, amended (under AdminSpec): no later pair of the same run, other job, job
\* status or timestamp update, or create or update of a vendor configuration
\* changes any field of a persisted row; the delete of a vendor configuration
\* sets vendor_config_id to NULL in the rows that reference it and changes no
\* other field.
C19_PersistedRowChangesOnlyByVendorDelete == [][RowsKeptUpTo(VendorDeleted)]_vars

\* Both jobs have persisted rows, the first job has had its final status and
\* completed_at written, and a vendor configuration was deleted after a row that
\* referenced it was persisted.
C19_Witness ==
    /\ \A p \in DOMAIN pc : \E n \in 1..Len(asr_evaluation_results) :
          asr_evaluation_results[n].job_id = p
    /\ DOMAIN pc = AdminRequests
    /\ pc[1] = "GetFinalJob"
    /\ evaluation_jobs[1].status = JobStatusCompleted
    /\ evaluation_jobs[1].completed_at
    /\ \E n \in 1..Len(asr_evaluation_results) :
          asr_evaluation_results[n].vendor_config_id = NullID

\* C20: every result RunASREvaluation emits has SER unset, on every path: the
\* result handed to the store, and every row when the run ends.
C20_SERAlwaysUnset ==
    \A p \in DOMAIN pc :
        /\ HandingOver(p) => ~result[p].ser.Valid
        /\ RunEnded(p) =>
              \A n \in 1..Len(asr_evaluation_results) : ~asr_evaluation_results[n].ser.Valid

\* A run has ended with a row of each path: a scored recognition, a failed
\* recognition, a recognition for a test case without ground truth, and a
\* recognition whose WER is degenerate; SER is unset in all of them.
C20_Witness ==
    \E p \in DOMAIN pc :
        /\ RunEnded(p)
        /\ \A n \in 1..Len(asr_evaluation_results) : ~asr_evaluation_results[n].ser.Valid
        /\ \E n \in 1..Len(asr_evaluation_results) : MetricsSet(asr_evaluation_results[n])
        /\ \E n \in 1..Len(asr_evaluation_results) :
              /\ RecordsError(asr_evaluation_results[n])
              /\ asr_evaluation_results[n].vendor_config_id = 2
        /\ \E n \in 1..Len(asr_evaluation_results) :
              /\ GroundTruthAbsent(asr_evaluation_results[n].asr_test_case_id)
              /\ asr_evaluation_results[n].vendor_config_id = 1
        /\ \E n \in 1..Len(asr_evaluation_results) :
              /\ asr_evaluation_results[n].cer.Valid
              /\ ~asr_evaluation_results[n].wer.Valid

\* The string is not empty and holds nothing but whitespace.
OnlyWhitespace(s) == s /= <<>> /\ \A i \in 1..Len(s) : s[i] = " "

\* The string has at least one word.
HasWord(s) == \E i \in 1..Len(s) : s[i] /= " "

\* C26 as stated: in every result emitted by RunASREvaluation, CER and WER are
\* either both set or both unset.
C26_MetricsBothSetOrBothUnset ==
    \A p \in DOMAIN pc :
        HandingOver(p) => (result[p].cer.Valid <=> result[p].wer.Valid)

\* The Recognizer call of the result p is handing over succeeded with a text of
\* at least one word, for a test case whose ground truth is made only of
\* whitespace.
WordsAgainstWhitespace(p) ==
    /\ LastCall(p).ok
    /\ testCase[p].GroundTruthText.Valid
    /\ OnlyWhitespace(testCase[p].GroundTruthText.String)
    /\ HasWord(result[p].recognized_text.String)

\* C26: in every result emitted by RunASREvaluation, CER and WER are either both
\* set or both unset, for every ground-truth text and every Recognizer outcome
\* but one: when the ground truth is made only of whitespace and the Recognizer
\* call succeeded with a text of at least one word, CER is set and WER is unset.
C26_MetricsAgreeButForWhitespaceTruth ==
    \A p \in DOMAIN pc :
        HandingOver(p) =>
            IF WordsAgainstWhitespace(p)
            THEN result[p].cer.Valid /\ ~result[p].wer.Valid
            ELSE result[p].cer.Valid <=> result[p].wer.Valid

\* The run is handing over a result with CER set and WER unset, after it stored
\* a row with both set and a row with both unset.
C26_Witness ==
    \E p \in DOMAIN pc :
        /\ HandingOver(p)
        /\ WordsAgainstWhitespace(p)
        /\ result[p].cer.Valid /\ ~result[p].wer.Valid
        /\ \E n \in 1..Len(asr_evaluation_results) : MetricsSet(asr_evaluation_results[n])
        /\ \E n \in 1..Len(asr_evaluation_results) : MetricsUnset(asr_evaluation_results[n])

\* ------------------------------------------ two requests at once (JobsSpec)

\* The steps of a job's persisted status.
StatusSteps ==
    {<<JobStatusPending, JobStatusRunning>>, <<JobStatusPending, JobStatusFailed>>,
     <<JobStatusRunning, JobStatusCompleted>>, <<JobStatusRunning, JobStatusFailed>>}

\* In the step, no job row disappears, a new row is PENDING, and the status of a
\* row that was there stays or moves one step forward.
StatusMovesForward ==
    /\ Len(evaluation_jobs') >= Len(evaluation_jobs)
    /\ \A id \in 1..Len(evaluation_jobs') :
          IF id <= Len(evaluation_jobs)
          THEN \/ evaluation_jobs'[id].status = evaluation_jobs[id].status
               \/ <<evaluation_jobs[id].status, evaluation_jobs'[id].status>> \in StatusSteps
          ELSE evaluation_jobs'[id].status = JobStatusPending

\* C21 (under JobsSpec): the persisted status of a job only moves forward along
\* PENDING -> RUNNING -> (COMPLETED or FAILED), or PENDING -> FAILED: a job is
\* created PENDING, COMPLETED is reached only from RUNNING, and once the status
\* is COMPLETED or FAILED no operation, of its own request or of another,
\* changes it again.
C21_StatusOnlyMovesForward == [][StatusMovesForward]_vars

\* Both requests have been answered: one job went PENDING, RUNNING, COMPLETED, the
\* other went from PENDING to FAILED without ever running.
C21_Witness ==
    /\ \A p \in DOMAIN pc : pc[p] = "done"
    /\ Len(evaluation_jobs) = 2
    /\ \E a, b \in 1..2 :
          /\ evaluation_jobs[a].status = JobStatusCompleted
          /\ evaluation_jobs[a].started_at
          /\ evaluation_jobs[b].status = JobStatusFailed
          /\ ~evaluation_jobs[b].started_at

\* The request whose CreateAndRunASRJob created the job with this id.
RequestOf(id) == CHOOSE p \in DOMAIN pc : job[p].ID = id

\* The rows of asr_evaluation_results of the job with this id.
RowsOfJob(id) == {n \in 1..Len(asr_evaluation_results) : asr_evaluation_results[n].job_id = id}

\* The run of request p handed a result to the store.
Emitted(p) ==
    \E n \in 1..Len(calls[p]) : calls[p][n].op = "CreateASREvaluationResult"

\* C25 (under JobsSpec): in every reachable state, a job whose persisted status
\* is FAILED has no result rows, and the run of its request emitted nothing:
\* FAILED is set only where the RUNNING or started_at update failed before the
\* loop, or RunASREvaluation returned an error before entering the loop.
C25_FailedJobHasNoResults ==
    \A id \in 1..Len(evaluation_jobs) :
        evaluation_jobs[id].status = JobStatusFailed =>
            /\ RowsOfJob(id) = {}
            /\ ~Emitted(RequestOf(id))
            /\ evalErr[RequestOf(id)] /= Nil

\* Both requests have been answered: the job of one is FAILED and has no rows,
\* the job of the other has its rows.
C25_Witness ==
    /\ \A p \in DOMAIN pc : pc[p] = "done"
    /\ Len(evaluation_jobs) = 2
    /\ \E a, b \in 1..2 :
          /\ evaluation_jobs[a].status = JobStatusFailed
          /\ RowsOfJob(a) = {}
          /\ evaluation_jobs[b].status = JobStatusCompleted
          /\ Cardinality(RowsOfJob(b)) = 2

\* The ids of a list.
IDsOf(ids) == {ids[n] : n \in 1..Len(ids)}

\* Row r is a row of the run of request p: it carries the id of p's job, a test
\* case id of p's list and a vendor id of p's list.
RowOfRun(r, p) ==
    /\ r.job_id = job[p].ID
    /\ r.asr_test_case_id \in IDsOf(testCaseIDs[p])
    /\ r.vendor_config_id \in IDsOf(vendorConfigIDs[p])

\* The rows the step adds are one row, added by the insert of a request p whose
\* run is handing it over: it is the result p built, a row of p's run, and the
\* status of p's job is RUNNING when the row is created.
RowsAddedByTheirRun ==
    Len(asr_evaluation_results') > Len(asr_evaluation_results) =>
        /\ Len(asr_evaluation_results') = Len(asr_evaluation_results) + 1
        /\ \E p \in DOMAIN pc :
              LET r == asr_evaluation_results'[Len(asr_evaluation_results')]
              IN  /\ HandingOver(p)
                  /\ ~HandingOver(p)'
                  /\ r = result[p]
                  /\ RowOfRun(r, p)
                  /\ evaluation_jobs[r.job_id].status = JobStatusRunning
                  /\ evaluation_jobs'[r.job_id].status = JobStatusRunning
                  /\ evaluation_jobs[r.job_id].test_case_ids = testCaseIDs[p]
                  /\ evaluation_jobs[r.job_id].vendor_config_ids = vendorConfigIDs[p]

\* C27 (under JobsSpec): when two CreateAndRunASRJob executions interleave, every
\* result row carries the id of the job whose run emitted it, a test-case id
\* of that job's own testCaseIDs and a vendor id of that job's own
\* vendorConfigIDs, and is created while that job's persisted status is RUNNING.
C27_RowsBelongToTheirOwnJob == [][RowsAddedByTheirRun]_vars

\* The two jobs name different test cases and different vendors, their inserts
\* alternated, and each has the row of its own pair.
C27_Witness ==
    /\ IDsOf(testCaseIDs[1]) \cap IDsOf(testCaseIDs[2]) = {}
    /\ vendorConfigIDs[1] = <<2>>
    /\ vendorConfigIDs[2] = <<1>>
    /\ Len(asr_evaluation_results) = 2
    /\ RowOfRun(asr_evaluation_results[1], 2)
    /\ RowOfRun(asr_evaluation_results[2], 1)
    /\ pc[2] = "UpdateFinalStatus"
    /\ pc[1] = "UpdateFinalStatus"

\* The job with this id, as a reader gets it from GetEvaluationJob.
ReadJob(id) == GetEvaluationJob(evaluation_jobs, id)

CompletedAtWritten(p) == Made(p, "UpdateEvaluationJobTimestamps", 0, 0, TRUE)

Answered(p) == pc[p] = "done"

\* CreateEvaluationJob stored a row for request p.
RowCreated(p) == job[p].ID /= 0

\* What the handler answers but for the status in the body of a 202: 201 exactly
\* when the evaluation ran without an orchestration error, 202 whenever a row
\* was created but the job failed, 500 only when no row was created.
AnswerCodes(p) ==
    /\ response[p].code \in {201, 202, 500}
    /\ response[p].code = 201 <=> evalErr[p] = Nil
    /\ (RowCreated(p) /\ evalErr[p] /= Nil) => response[p].code = 202
    /\ response[p].code = 500 => ~RowCreated(p)

MarkedFailed(p) == Made(p, "UpdateEvaluationJobStatus", 0, 0, TRUE)

AdapterOfKey(key) ==
    CASE key \in {"MockASR", "MockASR-Error"} -> "MockASRAdapter"
      [] key = "GoogleASR"     -> "GoogleASRAdapter"
      [] key = "MicrosoftASR"  -> "MicrosoftASRAdapter"
      [] key = "DeepgramASR"   -> "DeepgramASRAdapter"
      [] key = "TencentASR"    -> "TencentASRAdapter"
      [] key = "AlibabaASR"    -> "AlibabaASRAdapter"
      [] key = "VolcengineASR" -> "VolcengineASRAdapter"

\* GetASRAdapter has returned an adapter to request p, for the vendor
\* configuration it fetched.
AdapterSelected(p) == pc[p] = "Recognize"

\* C22 (under GuideSpec): the adapter that GetASRAdapter returns for a vendor
\* configuration whose Name is a documented key of the adapter registry is the
\* adapter of that vendor, never the mock fallback of the unrecognized names.
C22_DocumentedKeysReachTheirAdapter ==
    \A p \in DOMAIN pc :
        \A n \in 1..Len(DocumentedKeys) :
            (AdapterSelected(p) /\ vendorConfig[p].Name = DocumentedKeys[n])
                => adapter[p] = AdapterOfKey(DocumentedKeys[n])

\* The names that a case of GetASRAdapter matches.
RegisteredNames ==
    {"MockASR", "MockASR-Error", "GoogleCloudASR", "MicrosoftASR", "DeepgramASR",
     "TencentASR", "VolcengineASR", "AlibabaASR"}

\* The metrics of r are those of the mock transcript against the ground truth of
\* the test case when it has one, and unset when it has none.
ScoresMockTranscript(r, tc) ==
    IF tc.GroundTruthText.Valid /\ tc.GroundTruthText.String /= <<>>
    THEN /\ r.cer = MetricField(CalculateCER(tc.GroundTruthText.String, MockText))
         /\ r.wer = MetricField(CalculateWER(tc.GroundTruthText.String, MockText))
    ELSE MetricsUnset(r)

\* C24 (under GuideSpec): for a vendor configuration whose name no case of
\* GetASRAdapter matches, the adapter returned is the mock, with no error; the
\* pair is not skipped: its Recognizer call succeeds and its result is handed to
\* the store, carrying the mock transcript and the metrics of that transcript
\* against the ground truth when there is one; when the run ends the pair has
\* its row if the insert succeeded.
C24_UnrecognizedNameFallsBackToMock ==
    \A p \in DOMAIN pc :
        /\ (AdapterSelected(p) /\ vendorConfig[p].Name \notin RegisteredNames)
              => /\ adapter[p] = "MockASRAdapter"
                 /\ LastCall(p) = Call("GetVendorConfig", tcIdx[p], vIdx[p], TRUE)
        /\ (HandingOver(p) /\ vendorConfig[p].Name \notin RegisteredNames)
              => /\ LastCall(p) = Call("Recognize", tcIdx[p], vIdx[p], TRUE)
                 /\ result[p].recognized_text = NullStringOf(MockText)
                 /\ ScoresMockTranscript(result[p], testCase[p])
        /\ RunEnded(p) =>
              \A i \in TestCasePositions(p), k \in VendorPositions(p) :
                  (/\ Made(p, "GetASRTestCase", i, 0, TRUE)
                   /\ vendor_configs[vendorConfigIDs[p][k]].Name \notin RegisteredNames)
                      => /\ Made(p, "GetVendorConfig", i, k, TRUE)
                         /\ Made(p, "Recognize", i, k, TRUE)
                         /\ Attempted(p, "CreateASREvaluationResult", i, k)
                         /\ Made(p, "CreateASREvaluationResult", i, k, TRUE)
                               => /\ Cardinality(RowsOf(p, i, k)) = 1
                                  /\ \A n \in RowsOf(p, i, k) :
                                        asr_evaluation_results[n].recognized_text
                                            = NullStringOf(MockText)

\* A run of the test case "a a" has ended with the rows of the vendor named
\* GoogleASR and of the vendor under the administrator's own name: both carry the
\* mock transcript "a b", CER 1/3 and WER 1/2.
C24_Witness ==
    \E p \in DOMAIN pc :
        /\ RunEnded(p)
        /\ Len(JobRows(p)) = 2
        /\ vendor_configs[JobRows(p)[1].vendor_config_id].Name = "GoogleASR"
        /\ vendor_configs[JobRows(p)[2].vendor_config_id].Name = UserDefinedName
        /\ \A n \in 1..2 :
              /\ JobRows(p)[n].recognized_text = NullStringOf(MockText)
              /\ JobRows(p)[n].cer = NullFloat64Of(Float(1, 3))
              /\ JobRows(p)[n].wer = NullFloat64Of(Float(1, 2))
\* ------------------------------------------ test case uploads (UploadSpec)

\* The handler rejected request u after its audio object was uploaded.
RejectedAfterUpload(u) ==
    /\ upload[u].pc = "done"
    /\ upload[u].code \in {400, 500}
    /\ upload[u].objectName /= NoObject

\* The rows of asr_test_cases whose audio_file_path is this object.
RowsOfObject(o) == {id \in DOMAIN audio_file_path : audio_file_path[id] = o}

\* What holds whenever the handler has answered: a rejection after the upload
\* started the deletion of the object, and nothing else did; after a success the
\* object is in the bucket and exactly the created row references it.
AnsweredUpload(u) ==
    /\ RejectedAfterUpload(u) <=> upload[u].cleanup /= "none"
    /\ upload[u].code = 201 =>
          /\ upload[u].objectName \in bucket
          /\ upload[u].id \in DOMAIN asr_test_cases
          /\ RowsOfObject(upload[u].objectName) = {upload[u].id}

\* C30 (under UploadSpec, with the goroutines scheduled fairly): whenever
\* CreateASRTestCaseHandler rejects a request after the audio object was uploaded
\* (empty name, invalid tags JSON, failed insert), the deletion of that object is
\* started, so that eventually the object is gone or the object store has stopped
\* working; when the handler succeeds the object is kept and is referenced by
\* exactly the created row.
C30_RejectedUploadIsCleanedUp ==
    /\ [](\A u \in UploadRequests : upload[u].pc = "done" => AnsweredUpload(u))
    /\ \A u \in UploadRequests :
          RejectedAfterUpload(u) ~> (upload[u].objectName \notin bucket \/ ~objectStoreUp)

\* One upload was rejected and its object deleted while the store works; the
\* other succeeded and its object is kept.
C30_Witness ==
    \E u, w \in DOMAIN upload :
        /\ RejectedAfterUpload(u)
        /\ upload[u].cleanup = "deleted"
        /\ upload[u].objectName \notin bucket
        /\ objectStoreUp
        /\ upload[w].pc = "done" /\ upload[w].code = 201
        /\ bucket = {upload[w].objectName}
        /\ RowsOfObject(upload[w].objectName) = {upload[w].id}

====
